---- MODULE Spec2Model ----
(***************************************************************************)
(* Verification model of the Jobberman job scraper (src/src/main.js, the   *)
(* ESM script of lines 381-1032, and the sibling script                     *)
(* src/unnamed/part_000).                                                   *)
(*                                                                          *)
(* Strings are tuples of one-character strings, URLs are tuples of URL      *)
(* tokens (origin, path, "?", "&", "page=", digits, ...), DOM nodes are     *)
(* records.  Three specifications live in the module:                       *)
(*   Spec       the crawl: request queue, concurrent request handlers       *)
(*   SpecMerge  extractFromDetail / enrichFromJsonLd on one detail page     *)
(*   SpecPager  findNextUrl on one list page                                *)
(***************************************************************************)
EXTENDS Integers, Sequences, FiniteSets, TLC

VARIABLES
  \* ---- crawl configuration (Actor input, main.js:817-835) ----
  script,            \* which script of the repository runs: "main" | "part_000"
  RESULTS_WANTED,    \* target number of records
  MAX_PAGES,         \* page cap
  collectDetails,    \* full-detail collection on/off
  \* ---- crawl state (main.js:868-870) ----
  jobsScraped,       \* producedCount
  jobsEnqueued,      \* enqueuedCount
  scrapedUrls,       \* visitedUrls
  \* ---- the engine (CheerioCrawler) and the sink (Dataset) ----
  dataset,           \* sequence of emitted records
  requestQueue,      \* set of pending requests
  seenKeys,          \* uniqueKeys the queue has ever accepted
  handlers,          \* running requestHandler invocations, one per slot
  timeouts,          \* number of handler timeouts the engine has answered with a retry
  \* ---- observations of the run (history, read by the properties only) ----
  listPagesProcessed,\* number of LIST documents handed to the handler
  detailRuns,        \* per detail URL: number of handler invocations started for it
  lastEvent,         \* what the latest handler step saw and did
  \* ---- SpecMerge ----
  mergeIn,           \* [seed, doc]: the request's seed and the detail document
  mergeOut,          \* the item extractFromDetail returned, or NoItem
  \* ---- SpecPager ----
  pagerIn,           \* [doc, currentUrl]
  pagerOut,          \* the URL findNextUrl returned, or NotRun
  \* ---- SpecSanitize ----
  sanIn,             \* [fragment, baseUrl]
  sanOut,            \* the markup sanitizeDescription returned, or NotRun
  sanAgain,          \* the markup of sanitizing sanOut once more, or NotRun
  \* ---- SpecCard ----
  cardIn,            \* the text of a listing card
  cardOut,           \* the seed extractFromListingCard returned, or NoItem
  \* ---- SpecLinks ----
  linksIn,           \* [anchors, base]: the anchors of a list document
  linksOut,          \* [links]: the array collectJobLinks returned, or NoItem
  \* ---- SpecJsonLd ----
  ldIn,              \* [variant, scripts]: the ld+json blocks of a detail document
  ldOut              \* the node the detail branch works with, or NoItem

crawlVars == << script, RESULTS_WANTED, MAX_PAGES, collectDetails,
                jobsScraped, jobsEnqueued, scrapedUrls,
                dataset, requestQueue, seenKeys, handlers, timeouts,
                listPagesProcessed, detailRuns, lastEvent >>
mergeVars == << mergeIn, mergeOut >>
pagerVars == << pagerIn, pagerOut >>
sanVars == << sanIn, sanOut, sanAgain >>
cardVars == << cardIn, cardOut >>
linksVars == << linksIn, linksOut >>
ldVars == << ldIn, ldOut >>
pureVars == << sanVars, cardVars, linksVars, ldVars >>
vars == << crawlVars, mergeVars, pagerVars, pureVars >>

(***************************************************************************)
(* Bounds of the model                                                      *)
(***************************************************************************)
MaxTarget == 2
MaxPagesCap == 2
MaxStartUrls == 2
MaxLinks == 2
MaxSlots == 2
MaxTimeouts == 1
MaxPageParam == 11

(***************************************************************************)
(* Generic helpers                                                          *)
(***************************************************************************)
Min(a, b) == IF a < b THEN a ELSE b
Max(a, b) == IF a > b THEN a ELSE b

\* true when the value is falsy as a JavaScript string ("" is the only falsy string)
Falsy(s) == s = << >>

\* a choice that takes its first operand whatever it holds
OrFirst(a, b) == a

\* JavaScript a || b on strings
Or(a, b) == IF Falsy(a) THEN b ELSE a

\* Array.prototype.slice(0, end): a negative end counts from the end of the array
sliceFromStart(arr, end) ==
  LET n == Len(arr)
      e == IF end < 0 THEN Max(n + end, 0) ELSE Min(end, n)
  IN  SubSeq(arr, 1, e)

(***************************************************************************)
(* Text Normalizer                                                          *)
(***************************************************************************)
\* characters of the class [ \t\r\n]
NlClass == { "\n", "\t", "nbsp" }
\* characters of the class \s
WsClass == NlClass \cup { " " }

RECURSIVE DropWhileIn(_, _)
DropWhileIn(s, cls) ==
  IF s = << >> THEN << >>
  ELSE IF Head(s) \in cls THEN DropWhileIn(Tail(s), cls) ELSE s

\* .replace(/[ \t\r\n]+/g, ' ')
RECURSIVE ReplaceNlRuns(_)
ReplaceNlRuns(s) ==
  IF s = << >> THEN << >>
  ELSE IF Head(s) \in NlClass
       THEN << " " >> \o ReplaceNlRuns(DropWhileIn(s, NlClass))
       ELSE << Head(s) >> \o ReplaceNlRuns(Tail(s))

\* .replace(/\s{2,}/g, ' '): a run of two or more becomes one space, a single
\* whitespace character stays what it is
RECURSIVE CollapseWsRuns(_)
CollapseWsRuns(s) ==
  IF s = << >> THEN << >>
  ELSE IF Head(s) \in WsClass /\ Len(s) >= 2 /\ s[2] \in WsClass
       THEN << " " >> \o CollapseWsRuns(DropWhileIn(s, WsClass))
       ELSE << Head(s) >> \o CollapseWsRuns(Tail(s))

RECURSIVE Reverse(_)
Reverse(s) == IF s = << >> THEN << >> ELSE Reverse(Tail(s)) \o << Head(s) >>

\* String.prototype.trim
Trim(s) == Reverse(DropWhileIn(Reverse(DropWhileIn(s, WsClass)), WsClass))

cleanText(s) == Trim(CollapseWsRuns(ReplaceNlRuns(s)))

\* .replace(/…/g, '...')
RECURSIVE deEllipsize(_)
deEllipsize(s) ==
  IF s = << >> THEN << >>
  ELSE IF Head(s) = "ellipsis"
       THEN << ".", ".", "." >> \o deEllipsize(Tail(s))
       ELSE << Head(s) >> \o deEllipsize(Tail(s))

(***************************************************************************)
(* URL Resolver.  A URL is a tuple of tokens; its first token is the        *)
(* origin with its scheme ("https://site"), or, for a relative reference,   *)
(* a path token.  NullUrl is JavaScript's null.                             *)
(***************************************************************************)
NullUrl == << "null" >>

\* tokens that open an absolute URL, with the scheme each carries
HttpOrigins == { "https://site", "http://site", "https://other" }
OtherSchemes == { "javascript:", "mailto:" }
\* a reference the URL parser rejects (new URL throws)
Unparseable == "http://["

\* new URL(href, base).href, null when the constructor throws
toAbs(href, base) ==
  IF href = << >> THEN base
  ELSE IF Head(href) = Unparseable THEN NullUrl
  ELSE IF Head(href) \in HttpOrigins \cup OtherSchemes THEN href
  ELSE IF Head(href) = "?" THEN
         \* a query-only reference replaces the query of the base
         LET cut == CHOOSE i \in 1..(Len(base) + 1) :
                      /\ (i = Len(base) + 1 \/ base[i] \in { "?", "#" })
                      /\ \A j \in 1..(i - 1) : base[j] \notin { "?", "#" }
         IN  SubSeq(base, 1, cut - 1) \o href
  ELSE << Head(base) >> \o href

(***************************************************************************)
(* Decimal numerals                                                         *)
(***************************************************************************)
DigitChars == << "0", "1", "2", "3", "4", "5", "6", "7", "8", "9" >>
Digits == { DigitChars[i] : i \in 1..10 }
DigitVal(c) == (CHOOSE i \in 1..10 : DigitChars[i] = c) - 1

\* parseInt(ds, 10) on a run of digits
RECURSIVE ParseIntAcc(_, _)
ParseIntAcc(ds, acc) ==
  IF ds = << >> THEN acc ELSE ParseIntAcc(Tail(ds), acc * 10 + DigitVal(Head(ds)))
parseInt(ds) == ParseIntAcc(ds, 0)

\* String(n) for a natural number
RECURSIVE ToDigits(_)
ToDigits(n) ==
  IF n < 10 THEN << DigitChars[n + 1] >>
  ELSE ToDigits(n \div 10) \o << DigitChars[(n % 10) + 1] >>

\* the longest run of digits at the start of s
RECURSIVE TakeDigits(_)
TakeDigits(s) ==
  IF s = << >> \/ Head(s) \notin Digits THEN << >>
  ELSE << Head(s) >> \o TakeDigits(Tail(s))

(***************************************************************************)
(* Pagination Cursor Resolver                                               *)
(***************************************************************************)
\* href contains the substring "?page="
HasPageQuery(href) ==
  \E i \in 1..(Len(href) - 1) : href[i] = "?" /\ href[i + 1] = "page="

\* /next/i on an anchor's text; /Go to next page/i on an anchor's text
TextHasNext(t) == t \in { "Next", "Go to next page" }
TextHasGoToNext(t) == t = "Go to next page"

\* the "next" affordance findNextUrl reads from the document; each
\* $(selector).filter(pred).attr('href') is the href of the first anchor that
\* matches, << >> (undefined) when none matches or it has no href
NextLinkMain(anchors) ==
  LET byPage(a) == HasPageQuery(a.href) /\ TextHasNext(a.text)
      byRel(a) == a.rel = "next"
      byGoTo(a) == TextHasGoToNext(a.text)
      FirstHref(pred(_)) ==
        LET idx == { i \in 1..Len(anchors) : pred(anchors[i]) }
        IN  IF idx = {} THEN << >>
            ELSE anchors[CHOOSE i \in idx : \A j \in idx : i <= j].href
  IN  Or(FirstHref(byPage), Or(FirstHref(byRel), FirstHref(byGoTo)))

\* position of the leftmost match of /[?&]page=(\d+)/, 0 when there is none
PageMatchPos(url) ==
  LET hits == { i \in 1..(Len(url) - 2) :
                  /\ url[i] \in { "?", "&" }
                  /\ url[i + 1] = "page="
                  /\ url[i + 2] \in Digits }
  IN  IF hits = {} THEN 0 ELSE CHOOSE i \in hits : \A j \in hits : i <= j

\* the increment the fallback applies to the page number
PageStep == 1

\* PageFallback with the increment done on the matched text ("3" + 1 is "31")
PageFallbackConcat(currentUrl) ==
  LET i == PageMatchPos(currentUrl)
  IN  IF i > 0
      THEN LET ds == TakeDigits(SubSeq(currentUrl, i + 2, Len(currentUrl)))
           IN  SubSeq(currentUrl, 1, i + 1) \o ds \o << "1" >>
                 \o SubSeq(currentUrl, i + 2 + Len(ds), Len(currentUrl))
      ELSE IF \E j \in 1..Len(currentUrl) : currentUrl[j] = "?"
           THEN currentUrl \o << "&", "page=", "2" >>
           ELSE currentUrl \o << "?", "page=", "2" >>

\* the fallback of findNextUrl: page=N becomes page=N+1, no page= gets page=2
PageFallback(currentUrl) ==
  LET i == PageMatchPos(currentUrl)
  IN  IF i > 0
      THEN LET ds == TakeDigits(SubSeq(currentUrl, i + 2, Len(currentUrl)))
           IN  SubSeq(currentUrl, 1, i + 1)
                 \o ToDigits(parseInt(ds) + PageStep)
                 \o SubSeq(currentUrl, i + 2 + Len(ds), Len(currentUrl))
      ELSE IF \E j \in 1..Len(currentUrl) : currentUrl[j] = "?"
           THEN currentUrl \o << "&", "page=", "2" >>
           ELSE currentUrl \o << "?", "page=", "2" >>

findNextUrl(anchors, currentUrl) ==
  LET nextLink == NextLinkMain(anchors)
  IN  IF ~Falsy(nextLink) THEN toAbs(nextLink, currentUrl)
      ELSE PageFallback(currentUrl)

(***************************************************************************)
(* DOM.  A node is a text node or an element; an element's attributes are   *)
(* a tuple of <<name, value>> pairs in source order.                        *)
(***************************************************************************)
Text(d) == [type |-> "text", data |-> d]
El(n, a, c) == [type |-> "tag", name |-> n, attribs |-> a, children |-> c]
\* an empty cheerio selection
NoNode == [type |-> "none"]

\* el.attribs[name], << >> when the attribute is absent
Attr(el, name) ==
  LET idx == { i \in 1..Len(el.attribs) : el.attribs[i][1] = name }
  IN  IF idx = {} THEN << >>
      ELSE el.attribs[CHOOSE i \in idx : \A j \in idx : i <= j][2]

\* $el.text(): the text of all descendants, in document order
RECURSIVE textOf(_)
textOf(node) ==
  IF node.type = "text" THEN node.data
  ELSE IF node.type = "none" THEN << >>
  ELSE LET kids == node.children
           F[i \in 0..Len(kids)] == IF i = 0 THEN << >> ELSE F[i - 1] \o textOf(kids[i])
       IN  F[Len(kids)]

\* $el.children().length: the element children
ElementChildren(node) == SelectSeq(node.children, LAMBDA k : k.type = "tag")

(***************************************************************************)
(* Description Sanitizer (main.js:412-461)                                  *)
(***************************************************************************)
allowed == { "p", "br", "strong", "b", "em", "i", "u", "ul", "ol", "li",
             "h1", "h2", "h3", "h4", "h5", "h6", "a", "span", "div",
             "section", "article" }

\* tags of the documents: the allow-list and some tags outside it
OtherTags == { "script", "style", "img", "font", "nav", "button" }
TagNames == allowed \cup OtherTags
VoidTags == { "br", "img" }
AttrNames == { "href", "class", "id", "onclick", "src" }

(***************************************************************************)
(* Markup is a tuple of tokens.  "<p>" opens an element without attributes; *)
(* "<p", then for each attribute " name=\"", the tokens of its value and    *)
(* "\"", then ">" open an element with attributes; "</p>" closes it.  Any   *)
(* other token is a character of text.  A markup token inside a text node   *)
(* stands for the same characters as text; .html() writes it escaped.       *)
(***************************************************************************)
OpenTok(n) == "<" \o n \o ">"
OpenAttrTok(n) == "<" \o n
CloseTok(n) == "</" \o n \o ">"
AttrTok(a) == " " \o a \o "=\""
QuoteTok == "\""
GtTok == ">"
OpenToks == { OpenTok(n) : n \in TagNames }
OpenAttrToks == { OpenAttrTok(n) : n \in TagNames }
CloseToks == { CloseTok(n) : n \in TagNames }
AttrToks == { AttrTok(a) : a \in AttrNames }
\* tokens with "<" or ">" in them, which .html() escapes inside text
MarkupToks == OpenToks \cup OpenAttrToks \cup CloseToks \cup { GtTok }
EscapeTok(t) == "&" \o t
EscapedToks == { EscapeTok(t) : t \in MarkupToks }
UnescapeTok(e) == CHOOSE t \in MarkupToks : EscapeTok(t) = e

\* the longest prefix of tokens that holds no token of the set
RECURSIVE TakeUntil(_, _)
TakeUntil(toks, stop) ==
  IF toks = << >> \/ Head(toks) \in stop THEN << >>
  ELSE << Head(toks) >> \o TakeUntil(Tail(toks), stop)

\* the attributes of an opening tag, up to and including its ">"
RECURSIVE ParseAttrs(_)
ParseAttrs(toks) ==
  IF toks = << >> THEN [attribs |-> << >>, rest |-> << >>]
  ELSE IF Head(toks) = GtTok THEN [attribs |-> << >>, rest |-> Tail(toks)]
  ELSE IF Head(toks) \in AttrToks
       THEN LET name == CHOOSE a \in AttrNames : AttrTok(a) = Head(toks)
                val == TakeUntil(Tail(toks), { QuoteTok })
                more == ParseAttrs(SubSeq(toks, Len(val) + 3, Len(toks)))
            IN  [attribs |-> << << name, val >> >> \o more.attribs, rest |-> more.rest]
       ELSE ParseAttrs(Tail(toks))

\* the HTML parser on a tuple of tokens: the nodes up to the first closing
\* tag that closes no element opened here, and the tokens from there on
RECURSIVE ParseNodes(_)
ParseNodes(toks) ==
  IF toks = << >> \/ Head(toks) \in CloseToks
  THEN [nodes |-> << >>, rest |-> toks]
  ELSE IF Head(toks) \in OpenToks \cup OpenAttrToks
       THEN LET plain == Head(toks) \in OpenToks
                name == IF plain THEN CHOOSE n \in TagNames : OpenTok(n) = Head(toks)
                        ELSE CHOOSE n \in TagNames : OpenAttrTok(n) = Head(toks)
                attrs == IF plain THEN [attribs |-> << >>, rest |-> Tail(toks)]
                         ELSE ParseAttrs(Tail(toks))
                inner == IF name \in VoidTags THEN [nodes |-> << >>, rest |-> attrs.rest]
                         ELSE ParseNodes(attrs.rest)
                afterClose == IF name \in VoidTags \/ inner.rest = << >> THEN inner.rest
                              ELSE Tail(inner.rest)
                more == ParseNodes(afterClose)
            IN  [nodes |-> << El(name, attrs.attribs, inner.nodes) >> \o more.nodes,
                 rest |-> more.rest]
       ELSE LET run == TakeUntil(toks, OpenToks \cup OpenAttrToks \cup CloseToks)
                more == ParseNodes(SubSeq(toks, Len(run) + 1, Len(toks)))
                data == [i \in 1..Len(run) |->
                           IF run[i] \in EscapedToks THEN UnescapeTok(run[i]) ELSE run[i]]
            IN  [nodes |-> << Text(data) >> \o more.nodes, rest |-> more.rest]

\* cheerio parsing a string of markup into nodes
ParseHtml(toks) == ParseNodes(toks).nodes

\* el.attribs = {}; an anchor gets back its href, resolved, when it resolves
ResetAttribs(el, baseUrl) ==
  LET href == IF el.name = "a" THEN Attr(el, "href") ELSE << >>
      abs == toAbs(href, baseUrl)
  IN  IF el.name = "a" /\ ~Falsy(href) /\ abs # NullUrl
      THEN << << "href", abs >> >>
      ELSE << >>

\* first loop over find('*'): attributes are reset; an element outside the
\* allow-list is replaced by its cleaned text, or removed when that is empty.
\* replaceWith is given a string, which cheerio parses as markup; the nodes
\* it inserts are not part of the loop.  The descendants of a replaced
\* element are detached with it.
RECURSIVE StripNodes(_, _)
StripNodes(nodes, baseUrl) ==
  LET One(node) ==
        IF node.type = "text" THEN << node >>
        ELSE IF node.name \in allowed
             THEN << El(node.name, ResetAttribs(node, baseUrl),
                        StripNodes(node.children, baseUrl)) >>
             ELSE LET txt == cleanText(textOf(node))
                  IN  IF ~Falsy(txt) THEN ParseHtml(txt) ELSE << >>
      F[i \in 0..Len(nodes)] == IF i = 0 THEN << >> ELSE F[i - 1] \o One(nodes[i])
  IN  F[Len(nodes)]

\* the test of the second loop, on an element as it is when the loop reaches it
IsEmptyNode(node) ==
  /\ node.type = "tag"
  /\ node.name # "br"
  /\ Falsy(cleanText(textOf(node)))
  /\ Len(ElementChildren(node)) = 0

\* second loop over find('*'), in document order: an element is tested before
\* its descendants are, so it is tested with all of them still in place
RECURSIVE PruneNodes(_)
PruneNodes(nodes) ==
  LET One(node) ==
        IF node.type = "text" THEN << node >>
        ELSE IF IsEmptyNode(node) THEN << >>
        ELSE << El(node.name, node.attribs, PruneNodes(node.children)) >>
      F[i \in 0..Len(nodes)] == IF i = 0 THEN << >> ELSE F[i - 1] \o One(nodes[i])
  IN  F[Len(nodes)]

\* the attributes of an opening tag as tokens
SerializeAttrs(attribs) ==
  LET F[i \in 0..Len(attribs)] ==
        IF i = 0 THEN << >>
        ELSE F[i - 1] \o << AttrTok(attribs[i][1]) >> \o attribs[i][2] \o << QuoteTok >>
  IN  F[Len(attribs)]

\* .html(): the markup of the nodes; text is written escaped
RECURSIVE Serialize(_)
Serialize(nodes) ==
  LET Open(node) ==
        IF node.attribs = << >> THEN << OpenTok(node.name) >>
        ELSE << OpenAttrTok(node.name) >> \o SerializeAttrs(node.attribs) \o << GtTok >>
      One(node) ==
        IF node.type = "text"
        THEN [i \in 1..Len(node.data) |->
                IF node.data[i] \in MarkupToks THEN EscapeTok(node.data[i]) ELSE node.data[i]]
        ELSE IF node.name \in VoidTags THEN Open(node)
        ELSE Open(node) \o Serialize(node.children) \o << CloseTok(node.name) >>
      F[i \in 0..Len(nodes)] == IF i = 0 THEN << >> ELSE F[i - 1] \o One(nodes[i])
  IN  F[Len(nodes)]

\* tokens that end with ">" and tokens that start with "<"
EndsTag == OpenToks \cup CloseToks \cup { GtTok }
StartsTag == OpenToks \cup OpenAttrToks \cup CloseToks

\* .replace(/>\s+</g, '><')
RECURSIVE RemoveInterTagWs(_)
RemoveInterTagWs(toks) ==
  IF toks = << >> THEN << >>
  ELSE IF Head(toks) \in EndsTag
       THEN LET rest == Tail(toks)
                after == DropWhileIn(rest, WsClass)
            IN  IF Len(after) < Len(rest) /\ after # << >> /\ Head(after) \in StartsTag
                THEN << Head(toks) >> \o RemoveInterTagWs(after)
                ELSE << Head(toks) >> \o RemoveInterTagWs(rest)
       ELSE << Head(toks) >> \o RemoveInterTagWs(Tail(toks))

\* the two loops and the whitespace clean-up on the nodes under the root
SanitizeNodes(nodes, baseUrl) ==
  Trim(CollapseWsRuns(RemoveInterTagWs(Serialize(PruneNodes(StripNodes(nodes, baseUrl))))))

\* sanitizeDescription($ctx, $fragment, baseUrl): the fragment is appended to
\* an empty root, so the fragment's own element is part of the output
sanitizeDescription(fragment, baseUrl) ==
  IF fragment.type = "none" THEN << >>
  ELSE SanitizeNodes(<< fragment >>, baseUrl)

(***************************************************************************)
(* Selector Cascade Resolver and Structured-Data Locator                    *)
(***************************************************************************)
\* pickFirst($, selectors): the first element of the first selector that
\* matches anything; matches[i] is what selector i selects (NoNode: nothing)
pickFirst(matches) ==
  LET idx == { i \in 1..Len(matches) : matches[i].type # "none" }
  IN  IF idx = {} THEN NoNode
      ELSE matches[CHOOSE i \in idx : \A j \in idx : i <= j]

getFullText(el) ==
  IF el.type = "none" THEN << >>
  ELSE LET rich == Or(Attr(el, "title"), Or(Attr(el, "aria-label"), Attr(el, "data-title")))
       IN  cleanText(Or(rich, textOf(el)))

\* a block of type application/ld+json: [ok |-> FALSE] when JSON.parse fails,
\* else its candidate nodes (the @graph array, the array, or the one object)
BadBlock == [ok |-> FALSE, nodes |-> << >>]
Block(nodes) == [ok |-> TRUE, nodes |-> nodes]
NoJsonLd == [isJob |-> FALSE]

\* parseJsonLdJob: the first JobPosting node of the first block that has one
parseJsonLdJob(scripts) ==
  LET FirstJob(nodes) ==
        LET idx == { i \in 1..Len(nodes) : nodes[i].isJob }
        IN  IF idx = {} THEN NoJsonLd
            ELSE nodes[CHOOSE i \in idx : \A j \in idx : i <= j]
      hits == { b \in 1..Len(scripts) : scripts[b].ok /\ FirstJob(scripts[b].nodes).isJob }
  IN  IF hits = {} THEN NoJsonLd
      ELSE FirstJob(scripts[CHOOSE b \in hits : \A c \in hits : b <= c].nodes)

(***************************************************************************)
(* Field Merge Resolver (enrichFromJsonLd, main.js:552-619)                 *)
(***************************************************************************)
LowerChars == << "a", "b", "c", "f", "t" >>
UpperChars == << "A", "B", "C", "F", "T" >>
WordChars == { LowerChars[i] : i \in 1..5 } \cup { UpperChars[i] : i \in 1..5 }
                \cup Digits \cup { "_" }
ToUpper(c) ==
  IF \E i \in 1..5 : LowerChars[i] = c
  THEN UpperChars[CHOOSE i \in 1..5 : LowerChars[i] = c]
  ELSE c

\* empType.replace(/_/g, ' ').replace(/\b\w/g, l => l.toUpperCase())
FormatEmploymentType(empType) ==
  LET spaced == [i \in 1..Len(empType) |-> IF empType[i] = "_" THEN " " ELSE empType[i]]
  IN  [i \in 1..Len(spaced) |->
         IF spaced[i] \in WordChars /\ (i = 1 \/ spaced[i - 1] \notin WordChars)
         THEN ToUpper(spaced[i]) ELSE spaced[i]]

\* Number(n).toLocaleString(): decimal digits in groups of three
GroupDigits(ds) ==
  [i \in 1..(Len(ds) + ((Len(ds) - 1) \div 3)) |->
     LET fromEnd == Len(ds) + ((Len(ds) - 1) \div 3) - i   \* 0 for the last character
     IN  IF fromEnd % 4 = 3 THEN "," ELSE ds[Len(ds) - (fromEnd - (fromEnd \div 4))]]
toLocaleString(n) == GroupDigits(ToDigits(n))

NoSalary == [present |-> FALSE, currency |-> << >>, min |-> 0, max |-> 0]

\* the salary text enrichFromJsonLd renders; 0 stands for an absent amount
RenderBaseSalary(sal) ==
  LET currency == Or(sal.currency, << "N", "G", "N" >>)
      mk(n) == IF n = 0 THEN << >> ELSE currency \o << " " >> \o toLocaleString(n)
  IN  IF Falsy(mk(sal.min)) THEN mk(sal.max)
      ELSE IF Falsy(mk(sal.max)) THEN mk(sal.min)
      ELSE mk(sal.min) \o << " ", "-", " " >> \o mk(sal.max)

\* the category line of enrichFromJsonLd (main.js:603-608)
EnrichCategory(jsonLd, category) ==
  IF ~Falsy(jsonLd.occupationalCategory) /\ Falsy(category) THEN jsonLd.occupationalCategory
  ELSE IF ~Falsy(jsonLd.industry) /\ Falsy(category) THEN jsonLd.industry
  ELSE category

\* the location lines of enrichFromJsonLd (main.js:572-586)
EnrichLocation(jsonLd, location) ==
  IF ~jsonLd.hasAddress THEN location
  ELSE IF ~Falsy(jsonLd.streetAddress) THEN jsonLd.streetAddress
  ELSE IF ~Falsy(jsonLd.addressParts) THEN Or(location, jsonLd.addressParts)
  ELSE location

\* the description lines of enrichFromJsonLd (main.js:610-616): the two halves
\* are assigned one by one, each falling back to the value it had
EnrichDescription(jsonLd, fields, baseUrl) ==
  IF jsonLd.description.type = "none"
  THEN [html |-> fields.description_html, text |-> fields.description_text]
  ELSE [html |-> Or(sanitizeDescription(jsonLd.description, baseUrl), fields.description_html),
        text |-> Or(cleanText(textOf(jsonLd.description)), fields.description_text)]

\* the fields after the merge, given the description the merge arrived at
EnrichFields(jsonLd, fields, desc) ==
  [ title |-> Or(jsonLd.title, fields.title),
    company |-> Or(jsonLd.orgName, fields.company),
    date_posted |-> Or(jsonLd.datePosted, fields.date_posted),
    job_type |-> IF ~Falsy(jsonLd.employmentType)
                 THEN FormatEmploymentType(jsonLd.employmentType)
                 ELSE fields.job_type,
    location |-> EnrichLocation(jsonLd, fields.location),
    salary_range |-> IF jsonLd.baseSalary.present
                        /\ (jsonLd.baseSalary.min # 0 \/ jsonLd.baseSalary.max # 0)
                     THEN Or(RenderBaseSalary(jsonLd.baseSalary), fields.salary_range)
                     ELSE fields.salary_range,
    category |-> EnrichCategory(jsonLd, fields.category),
    description_html |-> desc.html,
    description_text |-> desc.text ]

enrichFromJsonLd(jsonLd, fields, baseUrl) ==
  IF ~jsonLd.isJob THEN fields
  ELSE EnrichFields(jsonLd, fields, EnrichDescription(jsonLd, fields, baseUrl))

(***************************************************************************)
(* Detail extraction (extractFromDetail, main.js:745-811)                   *)
(***************************************************************************)
EmptySeed == [ title |-> << >>, company |-> << >>, job_type |-> << >>,
               location |-> << >>, salary_range |-> << >>, category |-> << >> ]

\* description_text shorter than this sends the extraction to its fallbacks
DescMinLen == 100

\* a fallback candidate replaces the description when its text is longer
TryCandidate(cand, cur, baseUrl) ==
  IF (Falsy(cur.text) \/ Len(cur.text) < DescMinLen) /\ cand.type # "none"
     /\ Len(cleanText(textOf(cand))) > Len(cur.text)
  THEN [html |-> sanitizeDescription(cand, baseUrl), text |-> cleanText(textOf(cand))]
  ELSE cur

\* the description the selector cascade and its two fallbacks arrive at
CascadeDescription(doc, baseUrl) ==
  LET desc == pickFirst(doc.sel.description)
      d0 == IF desc.type # "none"
            THEN [html |-> sanitizeDescription(desc, baseUrl), text |-> cleanText(textOf(desc))]
            ELSE [html |-> << >>, text |-> << >>]
      d1 == TryCandidate(doc.heading, d0, baseUrl)
  IN  TryCandidate(doc.big, d1, baseUrl)

\* the value the selector cascade yields for a field
CascadeValue(doc, f) == deEllipsize(getFullText(pickFirst(doc.sel[f])))

\* the fields before the structured data is merged in, given the
\* description the cascade arrived at
SeedAndCascade(seed, doc, desc) ==
  [ title |-> Or(CascadeValue(doc, "title"), seed.title),
    company |-> Or(CascadeValue(doc, "company"), seed.company),
    job_type |-> Or(CascadeValue(doc, "job_type"), seed.job_type),
    location |-> Or(CascadeValue(doc, "location"), seed.location),
    salary_range |-> Or(CascadeValue(doc, "salary"), seed.salary_range),
    category |-> Or(CascadeValue(doc, "category"), seed.category),
    description_html |-> desc.html,
    description_text |-> desc.text,
    date_posted |-> doc.dateText ]

CascadeFields(seed, doc, baseUrl) ==
  SeedAndCascade(seed, doc, CascadeDescription(doc, baseUrl))

\* the record extractFromDetail returns for the merged fields
DetailItem(url, out) ==
  [ url |-> url, title |-> out.title, company |-> out.company,
    job_type |-> out.job_type, location |-> out.location,
    salary_range |-> out.salary_range, category |-> out.category,
    description_html |-> out.description_html,
    description_text |-> out.description_text,
    date_posted |-> out.date_posted, _source |-> "" ]

extractFromDetail(url, seed, doc) ==
  DetailItem(url, enrichFromJsonLd(parseJsonLdJob(doc.scripts),
                                   CascadeFields(seed, doc, url), url))

(***************************************************************************)
(* The crawl: documents the site can serve                                  *)
(***************************************************************************)
SiteOrigin == "https://site"
DetailUrls == { << SiteOrigin, "/listings/a" >>, << SiteOrigin, "/listings/b" >> }

\* initialUrls (main.js:849-863): the start URL of each pagination branch
StartUrl(b) ==
  IF b = 1 THEN << SiteOrigin, "/jobs" >>
  ELSE << SiteOrigin, "/jobs", "?", "q=" \o ToString(b) >>

\* the arrays collectJobLinks can return: job links of a page, without repeats
LinkLists ==
  { l \in UNION { [1..n -> DetailUrls] : n \in 0..MaxLinks } :
      \A i, j \in 1..Len(l) : i # j => l[i] # l[j] }

\* an anchor of a list page, as findNextUrl reads it
Anchor(href, rel, text) == [href |-> href, rel |-> rel, text |-> text]
\* the list pages of the crawl carry no pagination links: the next page is
\* the fallback of findNextUrl
ListAnchors == { << >> }

\* a list document: its job links and its anchors
ListDocs == [links : LinkLists, anchors : ListAnchors]

ElText(name, txt) == El(name, << >>, << Text(txt) >>)
NoMatches == [ title |-> << >>, company |-> << >>, job_type |-> << >>,
               location |-> << >>, salary |-> << >>, category |-> << >>,
               description |-> << >> ]
\* a JobPosting node with every property absent
BlankJob == [ isJob |-> TRUE, title |-> << >>, orgName |-> << >>, datePosted |-> << >>,
              employmentType |-> << >>, hasAddress |-> FALSE, streetAddress |-> << >>,
              addressParts |-> << >>, baseSalary |-> NoSalary,
              occupationalCategory |-> << >>, industry |-> << >>, description |-> NoNode ]
BlankDoc == [ sel |-> NoMatches, heading |-> NoNode, big |-> NoNode,
              dateText |-> << >>, scripts |-> << >> ]

\* detail documents of the crawl: every combination of a present and an
\* absent title in the selector cascade and in the structured data, and a
\* structured-data title of white space only
CrawlTitleMatches == { << >>, << ElText("h1", << "T" >>) >> }
CrawlLdTitles == { << >>, << "T" >>, << " " >> }
CrawlDetailDocs ==
  { [BlankDoc EXCEPT !.sel = [NoMatches EXCEPT !.title = m],
                     !.scripts = IF t = << >> THEN << >>
                                 ELSE << Block(<< [BlankJob EXCEPT !.title = t] >>) >>] :
      m \in CrawlTitleMatches, t \in CrawlLdTitles }

\* the seed extractFromListingCard leaves for a card with a title
CardSeed == [EmptySeed EXCEPT !.title = << "T" >>]

\* seedsByUrl.get(u) || {} (main.js:925-935, 952): the card of the first job
\* has a title, the cards of the others have none and leave no seed
SeedFor(u) == IF u = << SiteOrigin, "/listings/a" >> THEN CardSeed ELSE EmptySeed

(***************************************************************************)
(* The crawl: engine and sink                                               *)
(***************************************************************************)
Scripts == { "main", "part_000" }

ListRequest(url, pageNo) ==
  [label |-> "LIST", url |-> url, pageNo |-> pageNo, seed |-> EmptySeed, retryCount |-> 0]
DetailRequest(url, seed) ==
  [label |-> "DETAIL", url |-> url, pageNo |-> 1, seed |-> seed, retryCount |-> 0]

\* the request queue keeps a request only when its uniqueKey (its URL) is new
QueueAfterAdd(queue, seen, req) == IF req.url \in seen THEN queue ELSE queue \cup { req }
SeenAfterAdd(seen, req) == seen \cup { req.url }

\* retries the engine grants a request whose handler timed out (main.js:882)
maxRequestRetries == 5

Idle == [pc |-> "idle"]
Slots == 1..MaxSlots
\* the engine starts a handler in the first free slot
FreeSlot(w) == handlers[w].pc = "idle" /\ \A v \in Slots : v < w => handlers[v].pc # "idle"

\* the record a list page pushes for a link (main.js:941)
ListItem(u, seed) ==
  [ url |-> u, title |-> seed.title, company |-> seed.company, job_type |-> seed.job_type,
    location |-> seed.location, salary_range |-> seed.salary_range,
    category |-> seed.category, description_html |-> << >>, description_text |-> << >>,
    date_posted |-> << >>, _source |-> "jobberman.com" ]

(***************************************************************************)
(* Crawl Quota Controller: the decisions of requestHandler                  *)
(***************************************************************************)
\* LIST, direct push: links.slice(0, RESULTS_WANTED - jobsScraped)
ToPush(links, target, scraped) == sliceFromStart(links, target - scraped)

\* LIST, detail mode: links.slice(0, RESULTS_WANTED - jobsEnqueued)
ToEnqueue(links, target, enqueued) == sliceFromStart(links, target - enqueued)

\* the test inside the enqueue loop: main.js:951 has it, part_000:464 has none
EnqueueGuard(scr, target, enqueued, scraped) ==
  IF scr = "main" THEN enqueued < target /\ scraped < target ELSE TRUE

\* stop conditions that leave out the page cap
ShouldStopUncapped(scr, target, maxPages, scraped, enqueued, pageNo, nlinks) ==
  \/ scraped >= target
  \/ enqueued >= target
  \/ (scr = "main" /\ nlinks = 0)

\* the stop conditions after a list page: main.js:960-971, part_000:470
ShouldStop(scr, target, maxPages, scraped, enqueued, pageNo, nlinks) ==
  \/ scraped >= target
  \/ enqueued >= target
  \/ pageNo >= maxPages
  \/ (scr = "main" /\ nlinks = 0)

\* DETAIL: the two guards before extraction (main.js:984-991)
DetailGuard(target, scraped, visited, url) ==
  IF scraped >= target THEN "quota"
  ELSE IF url \in visited THEN "duplicate"
  ELSE "go"

\* a title check that tests the title as it stands
TitleGateRaw(item) == ~Falsy(item.title)

\* DETAIL: the title check before the push (main.js:996)
TitleGate(item) == ~Falsy(cleanText(item.title))

(***************************************************************************)
(* Crawl actions: each is the handler's code from one await to the next     *)
(***************************************************************************)
configVars == << script, RESULTS_WANTED, MAX_PAGES, collectDetails >>

\* the end of the LIST branch: stop conditions, then the next page's request
FinishList(w, h, scraped, enqueued, queue, seen) ==
  LET stop == ShouldStop(script, RESULTS_WANTED, MAX_PAGES, scraped, enqueued,
                         h.req.pageNo, h.nlinks)
      nextUrl == findNextUrl(h.anchors, h.req.url)
      enq == ~stop /\ nextUrl # NullUrl
      nreq == ListRequest(nextUrl, h.req.pageNo + 1)
  IN  /\ requestQueue' = IF enq THEN QueueAfterAdd(queue, seen, nreq) ELSE queue
      /\ seenKeys' = IF enq THEN SeenAfterAdd(seen, nreq) ELSE seen
      /\ handlers' = [handlers EXCEPT ![w] = Idle]
      /\ lastEvent' = [ kind |-> "listDone", pageNo |-> h.req.pageNo,
                        nlinks |-> h.nlinks, scraped |-> scraped,
                        enqueued |-> enqueued, nextEnqueued |-> enq ]

\* one pass of the enqueue loop from index i on: the first link the guard
\* lets through is handed to enqueueLinks and the handler awaits it; with no
\* such link the loop is over and the branch ends
EnqueueFrom(w, h, i, scraped, enqueued, queue, seen) ==
  IF i <= Len(h.toEnqueue) /\ EnqueueGuard(script, RESULTS_WANTED, enqueued, scraped)
  THEN LET dreq == DetailRequest(h.toEnqueue[i], SeedFor(h.toEnqueue[i]))
       IN  /\ requestQueue' = QueueAfterAdd(queue, seen, dreq)
           /\ seenKeys' = SeenAfterAdd(seen, dreq)
           /\ handlers' = [handlers EXCEPT ![w] = [h EXCEPT !.pc = "enqueueing", !.i = i]]
           /\ lastEvent' = [ kind |-> "step" ]
  ELSE FinishList(w, h, scraped, enqueued, queue, seen)

\* a LIST request is taken from the queue and its document handled up to the
\* first await (main.js:917-957)
StartList(w) ==
  /\ FreeSlot(w)
  /\ \E req \in requestQueue, doc \in ListDocs :
       /\ req.label = "LIST"
       /\ LET queue == requestQueue \ { req }
              h == [ pc |-> "list", req |-> req, nlinks |-> Len(doc.links),
                     anchors |-> doc.anchors,
                     toEnqueue |-> IF collectDetails
                                   THEN ToEnqueue(doc.links, RESULTS_WANTED, jobsEnqueued)
                                   ELSE << >>,
                     i |-> 0, n |-> 0, timedOut |-> FALSE ]
              toPush == ToPush(doc.links, RESULTS_WANTED, jobsScraped)
          IN  /\ listPagesProcessed' = listPagesProcessed + 1
              /\ IF ~collectDetails
                 THEN IF Len(toPush) > 0
                      THEN /\ dataset' = dataset \o [k \in 1..Len(toPush) |->
                                                    ListItem(toPush[k], SeedFor(toPush[k]))]
                           /\ handlers' = [handlers EXCEPT ![w] =
                                             [h EXCEPT !.pc = "listPushed", !.n = Len(toPush)]]
                           /\ requestQueue' = queue
                           /\ lastEvent' = [ kind |-> "listPush",
                                             before |-> jobsScraped, count |-> Len(toPush) ]
                           /\ UNCHANGED seenKeys
                      ELSE /\ FinishList(w, h, jobsScraped, jobsEnqueued, queue, seenKeys)
                           /\ UNCHANGED dataset
                 ELSE /\ EnqueueFrom(w, h, 1, jobsScraped, jobsEnqueued, queue, seenKeys)
                      /\ UNCHANGED dataset
  /\ UNCHANGED << configVars, jobsScraped, jobsEnqueued, scrapedUrls, timeouts, detailRuns >>

\* Dataset.pushData of a list page has resolved (main.js:943-945, 959-979)
ResumeListPush(w) ==
  /\ handlers[w].pc = "listPushed"
  /\ jobsScraped' = jobsScraped + handlers[w].n
  /\ FinishList(w, handlers[w], jobsScraped + handlers[w].n, jobsEnqueued,
                requestQueue, seenKeys)
  /\ UNCHANGED << configVars, jobsEnqueued, scrapedUrls, dataset, timeouts,
                  listPagesProcessed, detailRuns >>

\* enqueueLinks of a detail link has resolved (main.js:953, then the loop)
ResumeEnqueue(w) ==
  /\ handlers[w].pc = "enqueueing"
  /\ jobsEnqueued' = jobsEnqueued + 1
  /\ EnqueueFrom(w, handlers[w], handlers[w].i + 1, jobsScraped, jobsEnqueued + 1,
                 requestQueue, seenKeys)
  /\ UNCHANGED << configVars, jobsScraped, scrapedUrls, dataset, timeouts,
                  listPagesProcessed, detailRuns >>

\* a DETAIL branch that emits the item whatever its guards say
DetailStepUnguarded(w, req, guard, item) ==
  LET push == TitleGate(item)
  IN  /\ requestQueue' = requestQueue \ { req }
      /\ detailRuns' = [detailRuns EXCEPT ![req.url] = @ + 1]
      /\ dataset' = IF push THEN Append(dataset, item) ELSE dataset
      /\ handlers' = IF push
                     THEN [handlers EXCEPT ![w] =
                             [pc |-> "detailPushed", req |-> req, timedOut |-> FALSE]]
                     ELSE handlers
      /\ lastEvent' = [ kind |-> "detail", url |-> req.url,
                        outcome |-> IF guard # "go" THEN guard
                                    ELSE IF push THEN "pushed" ELSE "notitle",
                        title |-> << >> ]

\* a DETAIL branch that emits the item whether it has a title or not
DetailStepUntitled(w, req, guard, item) ==
  LET push == guard = "go"
  IN  /\ requestQueue' = requestQueue \ { req }
      /\ detailRuns' = [detailRuns EXCEPT ![req.url] = @ + 1]
      /\ dataset' = IF push THEN Append(dataset, item) ELSE dataset
      /\ handlers' = IF push
                     THEN [handlers EXCEPT ![w] =
                             [pc |-> "detailPushed", req |-> req, timedOut |-> FALSE]]
                     ELSE handlers
      /\ lastEvent' = [ kind |-> "detail", url |-> req.url,
                        outcome |-> IF guard # "go" THEN guard
                                    ELSE IF TitleGate(item) THEN "pushed" ELSE "notitle",
                        title |-> << >> ]

\* the DETAIL branch for a request, given the outcome of its guards and the
\* item extracted from its document (main.js:984-1001)
DetailStep(w, req, guard, item) ==
  LET push == guard = "go" /\ TitleGate(item)
  IN  /\ requestQueue' = requestQueue \ { req }
      /\ detailRuns' = [detailRuns EXCEPT ![req.url] = @ + 1]
      /\ dataset' = IF push THEN Append(dataset, item) ELSE dataset
      /\ handlers' = IF push
                     THEN [handlers EXCEPT ![w] =
                             [pc |-> "detailPushed", req |-> req, timedOut |-> FALSE]]
                     ELSE handlers
      /\ lastEvent' = [ kind |-> "detail", url |-> req.url,
                        outcome |-> IF guard # "go" THEN guard
                                    ELSE IF push THEN "pushed" ELSE "notitle",
                        title |-> << >> ]

\* a DETAIL request is taken from the queue and its document handled up to
\* the await of Dataset.pushData (main.js:982-1001)
StartDetail(w) ==
  /\ FreeSlot(w)
  /\ \E req \in requestQueue, doc \in CrawlDetailDocs :
       /\ req.label = "DETAIL"
       /\ DetailStep(w, req, DetailGuard(RESULTS_WANTED, jobsScraped, scrapedUrls, req.url),
                     extractFromDetail(req.url, req.seed, doc))
  /\ UNCHANGED << configVars, jobsScraped, jobsEnqueued, scrapedUrls, seenKeys, timeouts,
                  listPagesProcessed >>

\* a resumption that keeps only the URL just saved in the visited set
ResumeDetailPushForgetful(w) ==
  /\ handlers[w].pc = "detailPushed"
  /\ jobsScraped' = jobsScraped + 1
  /\ scrapedUrls' = { handlers[w].req.url }
  /\ handlers' = [handlers EXCEPT ![w] = Idle]
  /\ lastEvent' = [ kind |-> "step" ]
  /\ UNCHANGED << configVars, jobsEnqueued, dataset, requestQueue, seenKeys, timeouts,
                  listPagesProcessed, detailRuns >>

\* Dataset.pushData of a detail page has resolved (main.js:1002-1004)
ResumeDetailPush(w) ==
  /\ handlers[w].pc = "detailPushed"
  /\ jobsScraped' = jobsScraped + 1
  /\ scrapedUrls' = scrapedUrls \cup { handlers[w].req.url }
  /\ handlers' = [handlers EXCEPT ![w] = Idle]
  /\ lastEvent' = [ kind |-> "step" ]
  /\ UNCHANGED << configVars, jobsEnqueued, dataset, requestQueue, seenKeys, timeouts,
                  listPagesProcessed, detailRuns >>

\* a handler is still awaiting when requestHandlerTimeoutSecs runs out
\* (main.js:876): the engine puts the request back for a retry (main.js:882)
\* while the handler's pending await still resolves later
HandlerTimeout(w) ==
  /\ handlers[w].pc \in { "listPushed", "enqueueing", "detailPushed" }
  /\ ~handlers[w].timedOut
  /\ timeouts < MaxTimeouts
  /\ handlers[w].req.retryCount < maxRequestRetries
  /\ timeouts' = timeouts + 1
  /\ requestQueue' = requestQueue \cup
                       { [handlers[w].req EXCEPT !.retryCount = @ + 1] }
  /\ handlers' = [handlers EXCEPT ![w].timedOut = TRUE]
  /\ lastEvent' = [ kind |-> "step" ]
  /\ UNCHANGED << configVars, jobsScraped, jobsEnqueued, scrapedUrls, dataset, seenKeys,
                  listPagesProcessed, detailRuns >>

NoInput == << "no-input" >>
NoItem == [_source |-> "no-item"]
NotRun == << "not-run" >>

\* the variables of a specification that is not the one running
SanParked == sanIn = NoInput /\ sanOut = NotRun /\ sanAgain = NotRun
CardParked == cardIn = NoInput /\ cardOut = NoItem
LinksParked == linksIn = NoInput /\ linksOut = NoItem
LdParked == ldIn = NoInput /\ ldOut = NoItem
MergeParked == mergeIn = NoInput /\ mergeOut = NoItem
PagerParked == pagerIn = NoInput /\ pagerOut = NotRun
CrawlParked ==
  /\ script = "main" /\ RESULTS_WANTED = 1 /\ MAX_PAGES = 1 /\ collectDetails = TRUE
  /\ jobsScraped = 0 /\ jobsEnqueued = 0 /\ scrapedUrls = {}
  /\ dataset = << >> /\ requestQueue = {} /\ seenKeys = {}
  /\ handlers = [w \in Slots |-> Idle] /\ timeouts = 0
  /\ listPagesProcessed = 0 /\ detailRuns = [u \in DetailUrls |-> 0]
  /\ lastEvent = [kind |-> "init"]

Init ==
  /\ script \in Scripts
  /\ RESULTS_WANTED \in 1..MaxTarget
  /\ MAX_PAGES \in 1..MaxPagesCap
  /\ collectDetails \in BOOLEAN
  /\ jobsScraped = 0
  /\ jobsEnqueued = 0
  /\ scrapedUrls = {}
  /\ dataset = << >>
  /\ \E n \in 1..MaxStartUrls :
       /\ requestQueue = { ListRequest(StartUrl(b), 1) : b \in 1..n }
       /\ seenKeys = { StartUrl(b) : b \in 1..n }
  /\ handlers = [w \in Slots |-> Idle]
  /\ timeouts = 0
  /\ listPagesProcessed = 0
  /\ detailRuns = [u \in DetailUrls |-> 0]
  /\ lastEvent = [kind |-> "init"]
  /\ mergeIn = NoInput /\ mergeOut = NoItem
  /\ pagerIn = NoInput /\ pagerOut = NotRun
  /\ SanParked /\ CardParked /\ LinksParked /\ LdParked

Next ==
  \/ \E w \in Slots : StartList(w) /\ UNCHANGED << mergeVars, pagerVars, pureVars >>
  \/ \E w \in Slots : ResumeListPush(w) /\ UNCHANGED << mergeVars, pagerVars, pureVars >>
  \/ \E w \in Slots : ResumeEnqueue(w) /\ UNCHANGED << mergeVars, pagerVars, pureVars >>
  \/ \E w \in Slots : StartDetail(w) /\ UNCHANGED << mergeVars, pagerVars, pureVars >>
  \/ \E w \in Slots : ResumeDetailPush(w) /\ UNCHANGED << mergeVars, pagerVars, pureVars >>
  \/ \E w \in Slots : HandlerTimeout(w) /\ UNCHANGED << mergeVars, pagerVars, pureVars >>

Spec == Init /\ [][Next]_vars

\* a handler is at an await that has resolved, or a request is pending (then
\* a slot is free for it or a handler is at an await): some step other than a
\* handler timeout is enabled
CanStep ==
  \/ \E w \in Slots : handlers[w].pc # "idle"
  \/ requestQueue # {}

\* the crawl under fair scheduling: the engine starts a pending request when a
\* slot is free and the event loop resumes every handler whose await has
\* resolved, so the crawl does not stand still forever while CanStep holds.
\* This is weak fairness of the steps of Next, WF_vars(Next), written with
\* CanStep for ENABLED <<Next>>_vars; a handler timeout is never bound to
\* happen.
Fairness == []<>(~CanStep) \/ []<><<TRUE>>_vars

SpecFair == Spec /\ Fairness

(***************************************************************************)
(* SpecPager: findNextUrl on one list document                              *)
(***************************************************************************)
JobsUrl == << SiteOrigin, "/jobs" >>

\* current URLs: with and without a query, with a numeric page parameter in
\* first or later position, zero-padded, followed by another parameter or a
\* fragment, and with a parameter whose name only ends in "page"
PagerPrefixes == { JobsUrl \o << "?" >>, JobsUrl \o << "?", "q=x", "&" >> }
PagerSuffixes == { << >>, << "&", "q=x" >>, << "#top" >> }
PagerUrls ==
  { JobsUrl, JobsUrl \o << "?", "q=x" >>, JobsUrl \o << "#top" >>,
    JobsUrl \o << "?", "subpage=", "3" >>,
    JobsUrl \o << "?", "page=", "0", "7" >> }
  \cup { p \o << "page=" >> \o ToDigits(k) \o x :
           p \in PagerPrefixes, k \in 0..MaxPageParam, x \in PagerSuffixes }

PageHref(k) == << "?", "page=" >> \o ToDigits(k)
\* anchors of a list page: none, page links that are no "next" affordance,
\* and the three kinds of "next" affordance
PagerDocs ==
  { << >>,
    << Anchor(PageHref(1), "prev", "Previous"), Anchor(PageHref(5), "", "5") >>,
    << Anchor(PageHref(1), "prev", "Previous"), Anchor(PageHref(9), "", "Next") >>,
    << Anchor(<< "/jobs", "/p", "/8" >>, "next", "8") >>,
    << Anchor(<< "/jobs", "/more" >>, "", "Go to next page") >>,
    << Anchor(PageHref(9), "", "Next"), Anchor(<< "/jobs", "/p", "/8" >>, "next", ">") >>,
    << Anchor(<< Unparseable >>, "next", "Next") >> }

InitPager ==
  /\ pagerIn \in [doc : PagerDocs, currentUrl : PagerUrls]
  /\ pagerOut = NotRun
  /\ script = "main" /\ RESULTS_WANTED = 1 /\ MAX_PAGES = 1 /\ collectDetails = TRUE
  /\ jobsScraped = 0 /\ jobsEnqueued = 0 /\ scrapedUrls = {}
  /\ dataset = << >> /\ requestQueue = {} /\ seenKeys = {}
  /\ handlers = [w \in Slots |-> Idle] /\ timeouts = 0
  /\ listPagesProcessed = 0 /\ detailRuns = [u \in DetailUrls |-> 0]
  /\ lastEvent = [kind |-> "init"]
  /\ mergeIn = NoInput /\ mergeOut = NoItem
  /\ SanParked /\ CardParked /\ LinksParked /\ LdParked

RunFindNextUrl ==
  /\ pagerOut = NotRun
  /\ pagerOut' = findNextUrl(pagerIn.doc, pagerIn.currentUrl)
  /\ UNCHANGED << pagerIn, crawlVars, mergeVars, pureVars >>

NextPager == RunFindNextUrl

SpecPager == InitPager /\ [][NextPager]_vars

(***************************************************************************)
(* Properties of SpecPager                                                  *)
(***************************************************************************)
\* the document holds no rel="next" link and no link whose text says "next"
NoNextAffordance(doc) ==
  \A i \in 1..Len(doc) : doc[i].rel # "next" /\ ~TextHasNext(doc[i].text)

\* positions of the token "page=" that open a numeric page parameter
NumericPageParams(url) ==
  { i \in 2..(Len(url) - 1) :
      url[i] = "page=" /\ url[i - 1] \in { "?", "&" } /\ url[i + 1] \in Digits }

\* C9: without a "next" affordance, findNextUrl turns a numeric page parameter
\* k into k + 1 and leaves the rest of the URL as it is, and appends page=2
\* to a URL that has no page parameter; "https://site/jobs?page=3" gives
\* "https://site/jobs?page=4" and "https://site/jobs" gives
\* "https://site/jobs?page=2".
C9_PaginationFallback ==
  (pagerOut # NotRun /\ NoNextAffordance(pagerIn.doc)) =>
    LET url == pagerIn.currentUrl
        idx == NumericPageParams(url)
    IN  /\ idx # {} =>
             LET i == CHOOSE a \in idx : \A b \in idx : a <= b
                 ds == TakeDigits(SubSeq(url, i + 1, Len(url)))
             IN  pagerOut = SubSeq(url, 1, i) \o ToDigits(parseInt(ds) + 1)
                              \o SubSeq(url, i + 1 + Len(ds), Len(url))
        /\ (\A i \in 1..Len(url) : url[i] # "page=") =>
             pagerOut = url \o << (IF \E i \in 1..Len(url) : url[i] = "?" THEN "&" ELSE "?"),
                                  "page=", "2" >>
        /\ url = JobsUrl \o << "?", "page=", "3" >> =>
             pagerOut = JobsUrl \o << "?", "page=", "4" >>
        /\ url = JobsUrl => pagerOut = JobsUrl \o << "?", "page=", "2" >>

\* C9 witness: the fallback has run on "https://site/jobs?page=9" of a
\* document without anchors and has carried into the next decimal place
C9_Witness ==
  /\ pagerOut = JobsUrl \o << "?", "page=", "1", "0" >>
  /\ pagerIn.doc = << >>
  /\ pagerIn.currentUrl = JobsUrl \o << "?", "page=", "9" >>

\* the anchors of the document that carry rel="next" and an href
RelNextAnchors(doc) == { i \in 1..Len(doc) : doc[i].rel = "next" /\ ~Falsy(doc[i].href) }
\* the anchors recognized by their "next" text alone
TextNextAnchors(doc) ==
  { i \in 1..Len(doc) : doc[i].rel # "next" /\ TextHasNext(doc[i].text) /\ ~Falsy(doc[i].href) }

\* C21: when the document holds a rel="next" link and a link recognized by
\* its "next" text, with different hrefs, the next page URL is the href of
\* the rel="next" link.
C21_RelNextPreferred ==
  (/\ pagerOut # NotRun
   /\ RelNextAnchors(pagerIn.doc) # {}
   /\ TextNextAnchors(pagerIn.doc) # {}
   /\ \A i \in RelNextAnchors(pagerIn.doc), j \in TextNextAnchors(pagerIn.doc) :
        pagerIn.doc[i].href # pagerIn.doc[j].href) =>
    LET first == CHOOSE i \in RelNextAnchors(pagerIn.doc) :
                   \A j \in RelNextAnchors(pagerIn.doc) : i <= j
    IN  pagerOut = toAbs(pagerIn.doc[first].href, pagerIn.currentUrl)

(***************************************************************************)
(* SpecMerge: extractFromDetail on one detail document.  Each input varies  *)
(* the three tiers of one field (or of the description) and leaves the      *)
(* other fields empty.                                                      *)
(***************************************************************************)
VA == << "A" >>
VB == << "B" >>
VC == << "C" >>

SeededFields == { "title", "company", "job_type", "location", "salary_range", "category" }
MergeFields == SeededFields \cup { "date_posted" }
\* the key of a field in buildSelectorMap
SelKey(f) == IF f = "salary_range" THEN "salary" ELSE f

SeedVals == { << >>, VA }

\* what the selectors of a field match: nothing; an element with text; only
\* the second selector, with text to clean; a first selector that matches an
\* element without text; an element whose title attribute holds the full text
CascMatches ==
  { << >>,
    << ElText("span", VC) >>,
    << NoNode, ElText("span", << " ", "C", "\n" >>) >>,
    << ElText("span", << >>), ElText("span", VC) >>,
    << El("span", << << "title", VC >> >>, << Text(<< "c", "ellipsis" >>) >>) >> }

StructVals == { << >>, VB, << " " >>, << "f", "_", "t" >> }
SalaryVals ==
  { NoSalary,
    [present |-> TRUE, currency |-> << >>, min |-> 1500, max |-> 0],
    [present |-> TRUE, currency |-> << "U", "S", "D" >>, min |-> 1000, max |-> 2500000],
    [present |-> TRUE, currency |-> << >>, min |-> 0, max |-> 900],
    [present |-> TRUE, currency |-> << >>, min |-> 0, max |-> 0] }

\* the JobPosting nodes that carry a structured value for field f
LdNodes(f) ==
  CASE f = "title" -> { [BlankJob EXCEPT !.title = v] : v \in StructVals }
    [] f = "company" -> { [BlankJob EXCEPT !.orgName = v] : v \in StructVals }
    [] f = "date_posted" -> { [BlankJob EXCEPT !.datePosted = v] : v \in StructVals }
    [] f = "job_type" -> { [BlankJob EXCEPT !.employmentType = v] : v \in StructVals }
    [] f = "location" ->
         { [BlankJob EXCEPT !.hasAddress = TRUE, !.streetAddress = v] : v \in StructVals }
           \cup { [BlankJob EXCEPT !.hasAddress = TRUE, !.addressParts = v] : v \in StructVals }
           \cup { BlankJob }
    [] f = "salary_range" -> { [BlankJob EXCEPT !.baseSalary = v] : v \in SalaryVals }
    [] f = "category" ->
         { [BlankJob EXCEPT !.occupationalCategory = v] : v \in StructVals }
           \cup { [BlankJob EXCEPT !.industry = v] : v \in StructVals }

\* the ld+json blocks of a page that holds the node: one block, or a block
\* that fails to parse followed by a block whose second node it is
ScriptForms(node) ==
  { << Block(<< node >>) >>, << BadBlock, Block(<< NoJsonLd, node >>) >> }

FieldInputs ==
  { [ focus |-> f,
      seed |-> [EmptySeed EXCEPT ![f] = sv],
      doc |-> [BlankDoc EXCEPT !.sel = [NoMatches EXCEPT ![SelKey(f)] = m], !.scripts = sc] ] :
      f \in SeededFields, sv \in SeedVals, m \in CascMatches,
      sc \in { << >> } \cup UNION { ScriptForms(n) : n \in UNION { LdNodes(g) : g \in SeededFields } } }

DateInputs ==
  { [ focus |-> "date_posted", seed |-> EmptySeed,
      doc |-> [BlankDoc EXCEPT !.dateText = d, !.scripts = sc] ] :
      d \in { << >>, VC },
      sc \in { << >> } \cup UNION { ScriptForms(n) : n \in LdNodes("date_posted") } }

\* description elements of the page and description markup of the node
PageDescription ==
  El("div", << << "class", << "job-description" >> >> >>, << ElText("p", << "C", " ", "C" >>) >>)
DescMatches == { << >>, << PageDescription >> }
BigBlocks == { NoNode, El("section", << >>, << Text(<< "C", "C", "C", "C" >>) >>) }
LdDescriptions ==
  { NoNode } \cup
  { El("div", << >>, kids) :
      kids \in { << El("br", << >>, << >>) >>,
                 << ElText("p", VB) >>,
                 << Text(VB) >>,
                 << El("p", << >>, << >>) >>,
                 << Text(<< " " >>) >>,
                 << El("img", << << "src", << "/x.png" >> >> >>, << >>) >>,
                 << El("script", << >>, << Text(<< "x" >>) >>) >>,
                 << El("a", << << "href", << "/listings/b" >> >>, << "class", << "btn" >> >> >>,
                       << Text(VB) >>) >> } }

DescInputs ==
  { [ focus |-> "description", seed |-> EmptySeed,
      doc |-> [BlankDoc EXCEPT !.sel = [NoMatches EXCEPT !.description = m], !.big = big,
                               !.scripts = IF d.type = "none" THEN << >>
                                           ELSE << Block(<< [BlankJob EXCEPT !.description = d] >>) >>] ] :
      m \in DescMatches, big \in BigBlocks, d \in LdDescriptions }

MergeUrl == << SiteOrigin, "/listings/a" >>

InitMerge ==
  /\ mergeIn \in FieldInputs \cup DateInputs \cup DescInputs
  /\ mergeOut = NoItem
  /\ script = "main" /\ RESULTS_WANTED = 1 /\ MAX_PAGES = 1 /\ collectDetails = TRUE
  /\ jobsScraped = 0 /\ jobsEnqueued = 0 /\ scrapedUrls = {}
  /\ dataset = << >> /\ requestQueue = {} /\ seenKeys = {}
  /\ handlers = [w \in Slots |-> Idle] /\ timeouts = 0
  /\ listPagesProcessed = 0 /\ detailRuns = [u \in DetailUrls |-> 0]
  /\ lastEvent = [kind |-> "init"]
  /\ pagerIn = NoInput /\ pagerOut = NotRun
  /\ SanParked /\ CardParked /\ LinksParked /\ LdParked

RunExtractFromDetail ==
  /\ mergeOut = NoItem
  /\ mergeOut' = extractFromDetail(MergeUrl, mergeIn.seed, mergeIn.doc)
  /\ UNCHANGED << mergeIn, crawlVars, pagerVars, pureVars >>

NextMerge == RunExtractFromDetail

SpecMerge == InitMerge /\ [][NextMerge]_vars

(***************************************************************************)
(* Properties of the merge                                                  *)
(***************************************************************************)
MergeRan == mergeOut # NoItem

\* the value each tier holds for a field of the input
SeedTier(in, f) == IF f \in SeededFields THEN in.seed[f] ELSE << >>
CascadeTier(in, f) ==
  IF f = "date_posted" THEN in.doc.dateText ELSE CascadeValue(in.doc, SelKey(f))
StructuredTier(in, f) ==
  LET jsonLd == parseJsonLdJob(in.doc.scripts)
  IN  IF ~jsonLd.isJob THEN << >>
      ELSE CASE f = "title" -> jsonLd.title
             [] f = "company" -> jsonLd.orgName
             [] f = "date_posted" -> jsonLd.datePosted
             [] f = "job_type" -> FormatEmploymentType(jsonLd.employmentType)
             [] f = "location" -> IF jsonLd.hasAddress
                                  THEN Or(jsonLd.streetAddress, jsonLd.addressParts)
                                  ELSE << >>
             [] f = "salary_range" -> IF jsonLd.baseSalary.present
                                      THEN RenderBaseSalary(jsonLd.baseSalary)
                                      ELSE << >>
             [] f = "category" -> Or(jsonLd.occupationalCategory, jsonLd.industry)

\* the seed tier holds "A" (date_posted has no seed tier)
SeedIsA(in, f) == f \in SeededFields => SeedTier(in, f) = VA

\* C6: for every field of the record, a seed "A", an empty cascade and a
\* structured value "B" merge to "B"; a seed "A", a cascade "C" and an empty
\* structured value merge to "C"; three empty tiers merge to the empty value.
C6_MergePrecedence ==
  MergeRan =>
    \A f \in MergeFields :
      LET K == CascadeTier(mergeIn, f)
          J == StructuredTier(mergeIn, f)
      IN  /\ (SeedIsA(mergeIn, f) /\ K = << >> /\ J = VB) => mergeOut[f] = VB
          /\ (SeedIsA(mergeIn, f) /\ K = VC /\ J = << >>) => mergeOut[f] = VC
          /\ (SeedTier(mergeIn, f) = << >> /\ K = << >> /\ J = << >>) => mergeOut[f] = << >>

\* the text of the first query of a field, in list order, whose first
\* matched element yields non-empty text (empty when no query does)
FirstNonEmptyText(matches) ==
  LET idx == { i \in 1..Len(matches) : ~Falsy(deEllipsize(getFullText(matches[i]))) }
  IN  IF idx = {} THEN << >>
      ELSE deEllipsize(getFullText(matches[CHOOSE i \in idx : \A j \in idx : i <= j]))

\* C22: the cascade value of a field is the text of the first query, in list
\* order, whose first matched element yields non-empty text; it is what the
\* record holds for the field when neither the seed nor the structured data
\* supplies one.
C22_CascadeFirstNonEmpty ==
  MergeRan =>
    \A f \in SeededFields :
      (SeedTier(mergeIn, f) = << >> /\ StructuredTier(mergeIn, f) = << >>) =>
        mergeOut[f] = FirstNonEmptyText(mergeIn.doc.sel[SelKey(f)])

\* the two halves of the description each source yields
CascadePair(in) == CascadeDescription(in.doc, MergeUrl)
StructuredPair(in) ==
  LET d == parseJsonLdJob(in.doc.scripts).description
  IN  [html |-> sanitizeDescription(d, MergeUrl), text |-> cleanText(textOf(d))]
StructuredSupplies(in) ==
  /\ parseJsonLdJob(in.doc.scripts).isJob
  /\ parseJsonLdJob(in.doc.scripts).description.type # "none"

\* one half of the description the structured data holds (empty when absent)
StructuredHalf(in, half) ==
  IF StructuredSupplies(in) THEN StructuredPair(in)[half] ELSE << >>
DescriptionField(half) == IF half = "html" THEN "description_html" ELSE "description_text"

C7_DescriptionSameSource ==
  MergeRan =>
    LET out == [html |-> mergeOut.description_html, text |-> mergeOut.description_text]
    IN  \/ out = CascadePair(mergeIn)
        \/ StructuredSupplies(mergeIn) /\ out = StructuredPair(mergeIn)

(***************************************************************************)
(* Properties of the crawl                                                  *)
(***************************************************************************)
\* records of the dataset with the given url
Emitted(u) == { i \in 1..Len(dataset) : dataset[i].url = u }
\* handlers still running for the given url
InFlight(u) == { w \in Slots : handlers[w].pc = "detailPushed" /\ handlers[w].req.url = u }

\* C1: with full-detail collection on and target N, the number of emitted
\* records never exceeds N, however the detail handlers interleave between
\* their quota check, their emit and their increment.
C1_EmittedWithinTarget ==
  collectDetails => Len(dataset) <= RESULTS_WANTED

\* C2: with full-detail collection off, one list page pushes at most
\* max(0, target - produced) records, and the produced count stays within the
\* target after any sequence of list pages of any number of branches.
C2_DirectPushWithinRemaining ==
  ~collectDetails =>
    /\ jobsScraped <= RESULTS_WANTED
    /\ lastEvent.kind = "listPush" =>
         lastEvent.count <= Max(0, RESULTS_WANTED - lastEvent.before)

\* C3: once the same detail URL has been processed twice and an invocation
\* of it has emitted, sequentially or overlapping, the dataset holds exactly
\* one record of it and the URL is in the visited set once.
C3_SecondVisitIsNoOp ==
  \A u \in DetailUrls :
    (collectDetails /\ detailRuns[u] >= 2 /\ InFlight(u) = {} /\ Emitted(u) # {}) =>
      /\ Cardinality(Emitted(u)) = 1
      /\ u \in scrapedUrls

\* C4: in either mode no two emitted records have the same url.
C4_EmittedUrlsUnique ==
  \A i, j \in 1..Len(dataset) : i # j => dataset[i].url # dataset[j].url

\* C5: a detail record whose merged title is empty is never emitted: with
\* full-detail collection on, every record of the dataset has a title that
\* is not empty after cleaning.
C5_TitleGate ==
  collectDetails => \A i \in 1..Len(dataset) : cleanText(dataset[i].title) # << >>

\* a detail page whose merged title was empty has just been skipped
C5_Witness ==
  /\ lastEvent.kind = "detail"
  /\ lastEvent.outcome = "notitle"
  /\ Len(dataset) = 0

\* C8: after a list page, a next page is enqueued only when none of the stop
\* conditions holds: produced >= target, enqueued >= target, page number >=
\* maxPages, or zero job links on the page.
C8_NoNextPageAfterStop ==
  (lastEvent.kind = "listDone" /\ lastEvent.nextEnqueued) =>
    ~ \/ lastEvent.scraped >= RESULTS_WANTED
      \/ lastEvent.enqueued >= RESULTS_WANTED
      \/ lastEvent.pageNo >= MAX_PAGES
      \/ lastEvent.nlinks = 0

\* C10: the number of list pages a run processes is at most max_pages, also
\* with several start URLs.
C10_ListPagesWithinMaxPages ==
  listPagesProcessed <= MAX_PAGES

\* C26: a detail page that is discarded because the produced count has
\* reached the target, or because its URL is already visited, leaves the
\* produced count, the enqueued count and the visited URLs as they are and
\* emits nothing.
C26_DiscardedDetailNoEffect ==
  [][ (lastEvent'.kind = "detail" /\ lastEvent'.outcome \in { "quota", "duplicate" }) =>
        /\ jobsScraped' = jobsScraped
        /\ jobsEnqueued' = jobsEnqueued
        /\ scrapedUrls' = scrapedUrls
        /\ dataset' = dataset ]_vars

\* a detail page has just been discarded as a duplicate of a visited URL
C26_Witness ==
  /\ lastEvent.kind = "detail"
  /\ lastEvent.outcome = "duplicate"
  /\ lastEvent.url \in scrapedUrls

\* C27: a detail page without a title drops only its own record: the
\* produced count and the visited URLs stay as they are and nothing is
\* emitted; and a detail page handled while the produced count is below the
\* target and its URL is not visited is emitted unless it has no title
\* itself, whatever was dropped before it.
C27_MissingTitleDropsOneRecord ==
  [][ lastEvent'.kind = "detail" =>
        /\ lastEvent'.outcome = "notitle" =>
             /\ jobsScraped' = jobsScraped
             /\ scrapedUrls' = scrapedUrls
             /\ dataset' = dataset
             /\ handlers' = handlers
        /\ (jobsScraped < RESULTS_WANTED /\ lastEvent'.url \notin scrapedUrls) =>
             /\ lastEvent'.outcome \in { "pushed", "notitle" }
             /\ lastEvent'.outcome = "pushed" =>
                  /\ Len(dataset') = Len(dataset) + 1
                  /\ dataset'[Len(dataset')].url = lastEvent'.url ]_vars

\* a detail page has just been emitted after another detail page was handled
\* and dropped for its missing title
C27_Witness ==
  /\ lastEvent.kind = "detail"
  /\ lastEvent.outcome = "pushed"
  /\ \E u \in DetailUrls :
       /\ u # lastEvent.url
       /\ detailRuns[u] >= 1
       /\ Emitted(u) = {}
       /\ u \notin scrapedUrls

\* no list page is pending and no list handler is running
PaginationOver ==
  /\ \A r \in requestQueue : r.label # "LIST"
  /\ \A w \in Slots : handlers[w].pc \notin { "list", "listPushed", "enqueueing" }

\* C28: every pagination branch terminates: a branch starts with the request
\* of page 1, a pending list request has a page number from 1 to max_pages, a next-page request carries the page
\* number of the page that enqueued it plus 1, and under fair scheduling the
\* crawl reaches a state from which no list page is pending or handled.
C28_PaginationTerminates ==
  /\ \A r \in requestQueue : r.label = "LIST" /\ r.pageNo = 1
  /\ [](\A r \in requestQueue : r.label = "LIST" => (r.pageNo >= 1 /\ r.pageNo <= MAX_PAGES))
  /\ [][ \A r \in requestQueue' \ requestQueue :
           (r.label = "LIST" /\ r.retryCount = 0) =>
             /\ lastEvent'.kind = "listDone"
             /\ r.pageNo = lastEvent'.pageNo + 1 ]_vars
  /\ <>[]PaginationOver

\* the second page of a branch has been handled and the pagination is over
C28_Witness ==
  /\ PaginationOver
  /\ lastEvent.kind = "listDone"
  /\ lastEvent.pageNo = 2
  /\ ~lastEvent.nextEnqueued

\* no detail handler is between its emit and its state update
NoDetailMidUpdate == \A w \in Slots : handlers[w].pc # "detailPushed"

\* C29: with full-detail collection on, whenever no detail handler is between
\* its emit and its state update, producedCount equals the number of emitted
\* records and equals the size of visitedUrls.
C29_CountersAgree ==
  (collectDetails /\ NoDetailMidUpdate) =>
    /\ jobsScraped = Len(dataset)
    /\ jobsScraped = Cardinality(scrapedUrls)

\* the detail URLs the request queue has accepted
DetailUrlsHanded == { k \in seenKeys : k \in DOMAIN detailRuns }

\* no list handler is between an enqueueLinks call and its count
NoEnqueueMidUpdate == \A w \in Slots : handlers[w].pc # "enqueueing"

\* C30: with full-detail collection on, producedCount <= enqueuedCount in
\* every reachable state, and enqueuedCount is the number of distinct detail
\* URLs handed to the engine, a URL found on two list pages counted once.
C30_ProducedWithinEnqueued ==
  collectDetails =>
    /\ jobsScraped <= jobsEnqueued
    /\ NoEnqueueMidUpdate => jobsEnqueued = Cardinality(DetailUrlsHanded)



\* C15: with full-detail collection on, the count of enqueued detail
\* follow-ups never exceeds the target, whatever the interleaving of the list
\* handlers at their enqueue calls.
C15_EnqueuedWithinTarget == collectDetails => jobsEnqueued <= RESULTS_WANTED

\* C16: the set of visited URLs only grows, and the counts of produced
\* records and of enqueued follow-ups never decrease, in any step of the crawl.
C16_Monotone ==
  [][ /\ scrapedUrls \subseteq scrapedUrls'
      /\ jobsScraped' >= jobsScraped
      /\ jobsEnqueued' >= jobsEnqueued ]_vars

\* both detail pages have been saved after their follow-ups were enqueued
C16_Witness ==
  /\ Cardinality(scrapedUrls) >= 2
  /\ jobsScraped >= 2
  /\ jobsEnqueued >= 2

(***************************************************************************)
(* SpecSanitize: sanitizeDescription on one fragment, then once more on     *)
(* the markup it returned.                                                  *)
(***************************************************************************)
SanBase == << SiteOrigin, "/jobs" >>

\* an anchor with the given href and some more attributes
AnchorWith(href) ==
  El("a", << << "href", href >>, << "class", << "b", "t", "n" >> >>,
             << "onclick", << "x" >> >> >>, << Text(VB) >>)

\* attribute values that contain one of the markers of unwanted blocks
MarkedClass == << "S", "o", "c", "i", "a", "l" >>
MarkedId == << "a", "d", "-", "1" >>
\* text that stands only inside unwanted blocks
UnwantedText == { "S", "x", "N" }

\* the nodes a description is made of
SanPieces ==
  { Text(VB),
    Text(<< " " >>),
    ElText("p", VB),
    El("p", << >>, << >>),
    El("p", << >>, << El("span", << >>, << >>) >>),
    El("br", << >>, << >>),
    AnchorWith(<< "/listings/42", "?", "ref=x" >>),
    AnchorWith(<< "javascript:", "x" >>),
    AnchorWith(<< "mailto:", "x" >>),
    AnchorWith(<< Unparseable >>),
    El("a", << << "class", << "b", "t", "n" >> >> >>, << Text(VB) >>),
    ElText("script", << "x" >>),
    El("div", << << "class", MarkedClass >> >>, << Text(<< "S" >>) >>),
    El("span", << << "id", MarkedId >> >>, << Text(<< "S" >>) >>),
    El("img", << << "src", << "/x.png" >> >> >>, << >>),
    El("font", << >>, << Text(<< OpenAttrTok("b"), AttrTok("onclick"), "x", QuoteTok,
                                GtTok, "h", CloseTok("b") >>) >>),
    El("font", << >>, << Text(<< OpenTok("script"), "h", CloseTok("script") >>) >>),
    ElText("b", << " ", "B", " " >>),
    El("nav", << >>, << ElText("p", << "N" >>) >>) }

MaxPieces == 2
SanFragments ==
  { El("div", << >>, kids) : kids \in UNION { [1..n -> SanPieces] : n \in 1..MaxPieces } }

InitSanitize ==
  /\ sanIn \in [fragment : SanFragments, baseUrl : { SanBase }]
  /\ sanOut = NotRun /\ sanAgain = NotRun
  /\ CrawlParked /\ MergeParked /\ PagerParked /\ CardParked /\ LinksParked /\ LdParked

RunSanitize ==
  /\ sanOut = NotRun
  /\ sanOut' = sanitizeDescription(sanIn.fragment, sanIn.baseUrl)
  /\ UNCHANGED << sanIn, sanAgain, crawlVars, mergeVars, pagerVars, cardVars, linksVars, ldVars >>

\* the markup returned is parsed and sanitized once more
RunSanitizeAgain ==
  /\ sanOut # NotRun /\ sanAgain = NotRun
  /\ sanAgain' = SanitizeNodes(ParseHtml(sanOut), sanIn.baseUrl)
  /\ UNCHANGED << sanIn, sanOut, crawlVars, mergeVars, pagerVars, cardVars, linksVars, ldVars >>

NextSanitize == RunSanitize \/ RunSanitizeAgain

SpecSanitize == InitSanitize /\ [][NextSanitize]_vars

(***************************************************************************)
(* Properties of the sanitizer                                              *)
(***************************************************************************)
\* the elements of a forest of nodes
RECURSIVE ElementsOf(_)
ElementsOf(nodes) ==
  UNION { IF nodes[i].type = "tag"
          THEN { nodes[i] } \cup ElementsOf(nodes[i].children)
          ELSE {} : i \in 1..Len(nodes) }

\* the elements of the markup sanitizeDescription returned
OutputElements == ElementsOf(ParseHtml(sanOut))
\* the anchors of the fragment that was given
InputAnchors == { e \in ElementsOf(<< sanIn.fragment >>) : e.name = "a" }

\* C11: sanitizing markup that sanitizeDescription returned yields the same
\* markup (idempotence), also for empty elements nested in empty elements.
C11_SanitizeIdempotent ==
  sanAgain # NotRun => sanAgain = sanOut

\* C12: no element of the sanitizer's output carries an attribute, except
\* that an anchor may carry the one attribute href, whose value is the
\* original href of an anchor of the input resolved against baseUrl.
C12_OnlyAnchorHref ==
  sanOut # NotRun =>
    \A e \in OutputElements :
      \/ e.attribs = << >>
      \/ /\ e.name = "a"
         /\ Len(e.attribs) = 1
         /\ e.attribs[1][1] = "href"
         /\ \E a \in InputAnchors : e.attribs[1][2] = toAbs(Attr(a, "href"), sanIn.baseUrl)

\* C13: the resolver returns null for unparseable references and for every
\* scheme other than http and https, so no anchor of the sanitizer's output
\* has an href of another scheme.
C13_OnlyHttpLinks ==
  sanOut # NotRun =>
    /\ \A a \in InputAnchors :
         (Attr(a, "href") # << >> /\ Head(Attr(a, "href")) \in OtherSchemes \cup { Unparseable })
           => toAbs(Attr(a, "href"), sanIn.baseUrl) = NullUrl
    /\ \A e \in OutputElements :
         (e.name = "a" /\ Attr(e, "href") # << >>) => Head(Attr(e, "href")) \in HttpOrigins

\* the elements of the fragment that was given
InputElements == ElementsOf(<< sanIn.fragment >>)

\* C25: every element of the sanitizer's output has a tag of the allow-list,
\* and is an element of the input: the text of an element outside the list
\* stays text, also when it looks like markup.
C25_OnlyAllowedElements ==
  sanOut # NotRun =>
    \A e \in OutputElements :
      /\ e.name \in allowed
      /\ \E x \in InputElements : x.name = e.name

\* C19: script, style, interactive and navigational elements, and elements
\* whose class or id holds one of the markers, are removed with all of their
\* text: none of that text is in the output.
C19_UnwantedBlocksRemoved ==
  sanOut # NotRun => \A i \in 1..Len(sanOut) : sanOut[i] \notin UnwantedText

(***************************************************************************)
(* Listing cards (extractFromListingCard, main.js:656-707).  The text of a  *)
(* card is a tuple of tokens: a word is one token, a digit, a comma, a      *)
(* hyphen and a whitespace character are one token each.                    *)
(***************************************************************************)
\* words of three letters, which [A-Z]{3} with the i flag matches whole
ThreeLetterWords == { "NGN", "USD", "ngn", "EUR", "Dev", "New" }
LongWords == { "Acme", "Lagos", "Full", "Time", "Contract", "Easy", "Apply", "FEATURED", "IT" }
RangeWords == { "to", "TO" }
\* tokens made of characters of the class \w
CardWordToks == ThreeLetterWords \cup LongWords \cup RangeWords \cup Digits \cup { "_" }
AmountChars == Digits \cup { "," }

\* the first index from j on that holds no whitespace (Len + 1 when none)
RECURSIVE SkipWs(_, _)
SkipWs(l, j) == IF j <= Len(l) /\ l[j] \in WsClass THEN SkipWs(l, j + 1) ELSE j

\* the first index from j on that holds no character of the class
RECURSIVE RunEnd(_, _, _)
RunEnd(l, j, cls) == IF j <= Len(l) /\ l[j] \in cls THEN RunEnd(l, j + 1, cls) ELSE j

\* .split(/\s{2,}|\n+/): the pieces between separators, a separator being a
\* run of two or more whitespace characters or a run of newlines
RECURSIVE SplitLinesAcc(_, _)
SplitLinesAcc(s, cur) ==
  IF s = << >> THEN << cur >>
  ELSE IF Head(s) \in WsClass /\ RunEnd(s, 1, WsClass) > 2
       THEN << cur >> \o SplitLinesAcc(SubSeq(s, RunEnd(s, 1, WsClass), Len(s)), << >>)
       ELSE IF Head(s) = "\n"
            THEN << cur >> \o SplitLinesAcc(SubSeq(s, RunEnd(s, 1, { "\n" }), Len(s)), << >>)
            ELSE SplitLinesAcc(Tail(s), Append(cur, Head(s)))

\* lines split from the card's text as it stands, without cleanText
CardLinesRaw(text) ==
  LET pieces == SplitLinesAcc(text, << >>)
      trimmed == [i \in 1..Len(pieces) |-> Trim(pieces[i])]
  IN  SelectSeq(trimmed, LAMBDA l : ~Falsy(l))

\* cleanText($card.text()).split(...).map(s => s.trim()).filter(Boolean)
CardLines(text) ==
  LET pieces == SplitLinesAcc(cleanText(text), << >>)
      trimmed == [i \in 1..Len(pieces) |-> Trim(pieces[i])]
  IN  SelectSeq(trimmed, LAMBDA l : ~Falsy(l))

\* \b([A-Z]{3})\s*X at index i of the line, X a character of the class
CurrencyAt(l, i, cls) ==
  /\ l[i] \in ThreeLetterWords
  /\ (i = 1 \/ l[i - 1] \notin CardWordToks)
  /\ SkipWs(l, i + 1) <= Len(l)
  /\ l[SkipWs(l, i + 1)] \in cls

\* the regular expression of lines.find: the amount starts with a digit
SalaryTest(l) == \E i \in 1..Len(l) : CurrencyAt(l, i, Digits)

\* Number(m.replace(/,/g, '')) for a run of digits and commas
AmountValue(m) == parseInt(SelectSeq(m, LAMBDA c : c \in Digits))

\* the groups of salLine.match: m1 the currency, m2 the first amount, m4 the
\* second amount (<< >> when the optional part does not match)
SalaryGroups(l) ==
  LET i == CHOOSE k \in 1..Len(l) :
             CurrencyAt(l, k, AmountChars) /\ \A h \in 1..(k - 1) : ~CurrencyAt(l, h, AmountChars)
      j == SkipWs(l, i + 1)
      e2 == RunEnd(l, j, AmountChars)
      k1 == SkipWs(l, e2)
      k2 == SkipWs(l, k1 + 1)
      k3 == SkipWs(l, k2 + 1)
      hasSep == k1 <= Len(l) /\ l[k1] \in { "-" } \cup RangeWords
      withCur == hasSep /\ k2 <= Len(l) /\ l[k2] \in ThreeLetterWords
                   /\ k3 <= Len(l) /\ l[k3] \in AmountChars
      without == hasSep /\ k2 <= Len(l) /\ l[k2] \in AmountChars
      from == IF withCur THEN k3 ELSE k2
  IN  [ m1 |-> l[i], m2 |-> SubSeq(l, j, e2 - 1),
        m4 |-> IF withCur \/ without
               THEN SubSeq(l, from, RunEnd(l, from, AmountChars) - 1) ELSE << >> ]

\* the salary_range the groups are rendered to (main.js:690-693)
RenderCardSalary(m) ==
  LET c == << m.m1 >>
      min == AmountValue(m.m2)
      max == IF Falsy(m.m4) THEN 0 ELSE AmountValue(m.m4)
  IN  IF max # 0
      THEN c \o << " " >> \o toLocaleString(min) \o << " ", "-", " " >>
             \o c \o << " " >> \o toLocaleString(max)
      ELSE c \o << " " >> \o toLocaleString(min)

\* the salary step of extractFromListingCard (main.js:685-695)
CardSalary(lines) ==
  LET hits == { i \in 1..Len(lines) : SalaryTest(lines[i]) }
  IN  IF hits = {} THEN << >>
      ELSE RenderCardSalary(SalaryGroups(lines[CHOOSE i \in hits : \A h \in hits : i <= h]))

\* tokens i..j of the line stand between two word boundaries
Bounded(l, i, j) ==
  /\ (i = 1 \/ l[i - 1] \notin CardWordToks)
  /\ (j = Len(l) \/ l[j + 1] \notin CardWordToks)

DateWords == { "New", "Today", "Yesterday" }
KnownCurrencies == { "NGN", "GHS", "KES", "ZAR", "USD", "ngn" }
OneWordJobTypes ==
  { "Contract", "Temporary", "Internship", "Remote", "Hybrid", "Freelance", "Volunteer" }

\* /^(New|Today|Yesterday)$/i
IsDateLine(l) == Len(l) = 1 /\ l[1] \in DateWords

\* /\b(Easy Apply|FEATURED)\b/i
HasBadge(l) ==
  \E i \in 1..Len(l) :
    \/ l[i] = "FEATURED" /\ Bounded(l, i, i)
    \/ /\ i + 2 <= Len(l)
       /\ l[i] = "Easy" /\ l[i + 1] = " " /\ l[i + 2] = "Apply"
       /\ Bounded(l, i, i + 2)

\* /\b(New|Today|Yesterday|Easy Apply|FEATURED)\b/i
HasDateOrBadge(l) ==
  \/ \E i \in 1..Len(l) : l[i] \in DateWords /\ Bounded(l, i, i)
  \/ HasBadge(l)

\* /\b(NGN|GHS|KES|ZAR|USD)\b\s*\d/i
HasKnownCurrency(l) ==
  \E i \in 1..Len(l) :
    /\ l[i] \in KnownCurrencies
    /\ Bounded(l, i, i)
    /\ SkipWs(l, i + 1) <= Len(l)
    /\ l[SkipWs(l, i + 1)] \in Digits

\* the index where a job type that starts at i ends (0 when none starts there):
\* /\b(Full\s*Time|Part\s*Time|Contract|...|Volunteer)\b/i
JobTypeEnd(l, i) ==
  IF l[i] \in OneWordJobTypes /\ Bounded(l, i, i) THEN i
  ELSE IF /\ l[i] \in { "Full", "Part" }
          /\ SkipWs(l, i + 1) <= Len(l)
          /\ l[SkipWs(l, i + 1)] = "Time"
          /\ Bounded(l, i, SkipWs(l, i + 1))
       THEN SkipWs(l, i + 1)
       ELSE 0
HasJobType(l) == \E i \in 1..Len(l) : JobTypeEnd(l, i) > 0
JobTypeStart(l) ==
  CHOOSE i \in 1..Len(l) : JobTypeEnd(l, i) > 0 /\ \A h \in 1..(i - 1) : JobTypeEnd(l, h) = 0

\* the first line of the lines that satisfy the test, << >> when none does
FirstLineIn(lines, hits) ==
  IF hits = {} THEN << >> ELSE lines[CHOOSE i \in hits : \A h \in hits : i <= h]

\* the company loop (main.js:665-673)
CardCompany(title, lines) ==
  FirstLineIn(lines, { i \in 1..Len(lines) :
                         /\ lines[i] # title
                         /\ ~IsDateLine(lines[i])
                         /\ ~HasBadge(lines[i])
                         /\ ~HasKnownCurrency(lines[i])
                         /\ ~HasJobType(lines[i]) })

\* lines.find of the job type test (main.js:676)
CardMeta(lines) == FirstLineIn(lines, { i \in 1..Len(lines) : HasJobType(lines[i]) })

\* jt[1].replace(/\s+/g, ' ') (main.js:679)
CardJobType(meta) ==
  IF meta = << >> THEN << >>
  ELSE CollapseWsRuns(SubSeq(meta, JobTypeStart(meta), JobTypeEnd(meta, JobTypeStart(meta))))

\* cleanText(meta.split(jt[0])[0]) (main.js:681-682)
CardLocation(meta) ==
  IF meta = << >> THEN << >> ELSE cleanText(SubSeq(meta, 1, JobTypeStart(meta) - 1))

\* lines.findIndex of the category test (main.js:698-704)
CardCategory(title, company, lines) ==
  FirstLineIn(lines, { i \in 1..Len(lines) :
                         /\ lines[i] # title /\ lines[i] # company
                         /\ ~HasDateOrBadge(lines[i])
                         /\ ~HasKnownCurrency(lines[i])
                         /\ ~HasJobType(lines[i]) })

\* the record of the card, with the lines it was read from
CardResult(title, lines) ==
  [ title |-> title,
    company |-> CardCompany(title, lines),
    location |-> CardLocation(CardMeta(lines)),
    job_type |-> CardJobType(CardMeta(lines)),
    salary_range |-> CardSalary(lines),
    category |-> CardCategory(title, CardCompany(title, lines), lines),
    lines |-> lines ]

\* titleText is the text of the card's first job link, text the card's text
extractFromListingCard(titleText, text) == CardResult(cleanText(titleText), CardLines(text))

(***************************************************************************)
(* SpecCard: extractFromListingCard on the text of one card                 *)
(***************************************************************************)
CardCurrencies == { "NGN", "USD", "ngn", "EUR" }
FirstAmounts ==
  { << "5" >>, << "1", "5", "0", "0" >>, << "1", "5", "0", ",", "0", "0", "0" >>,
    << "8", "0", ",", "0", "0", "0" >> }
SecondAmounts ==
  { << "9" >>, << "2", "5", "0", ",", "0", "0", "0" >>, << "0" >> }
RangeSeparators == { << " ", "-", " " >>, << "-" >>, << " ", "to", " " >> }

\* the pieces of text a card holds besides its salary
TitlePiece == << "Dev" >>
CompanyPiece == << "Acme" >>
MetaPiece == << "Lagos", " ", "Full", " ", "Time" >>
CategoryPiece == << "IT" >>
BadgePiece == << "New" >>
\* what separates two pieces in the card's text
PieceSeparators == { << "\n" >>, << " ", " " >> }

\* a card: the text of its title link and the pieces before and after the
\* salary piece
CardLayout(title, before, after) == [title |-> title, before |-> before, after |-> after]
CardLayouts ==
  { CardLayout(<< >>, << >>, << >>),
    CardLayout(TitlePiece, << TitlePiece >>, << >>),
    CardLayout(TitlePiece, << TitlePiece, CompanyPiece >>, << >>),
    CardLayout(TitlePiece, << TitlePiece, CompanyPiece, MetaPiece >>, << >>),
    CardLayout(TitlePiece, << TitlePiece, CompanyPiece, MetaPiece >>, << CategoryPiece >>),
    CardLayout(TitlePiece, << TitlePiece, BadgePiece, CompanyPiece, MetaPiece >>,
               << CategoryPiece >>) }

\* the pieces with the separator between every two of them
RECURSIVE JoinPieces(_, _)
JoinPieces(pieces, sep) ==
  IF pieces = << >> THEN << >>
  ELSE IF Len(pieces) = 1 THEN Head(pieces)
  ELSE Head(pieces) \o sep \o JoinPieces(Tail(pieces), sep)

\* salary pieces of one amount (b = << >>) and of two amounts
SalaryPieces ==
  { [ piece |-> << c, " " >> \o a, cur |-> c, a |-> a, b |-> << >> ] :
      c \in CardCurrencies, a \in FirstAmounts }
  \cup
  { [ piece |-> << c, " " >> \o a \o sep \o b, cur |-> c, a |-> a, b |-> b ] :
      c \in CardCurrencies, a \in FirstAmounts, sep \in RangeSeparators, b \in SecondAmounts }

CardInputs ==
  { [ titleText |-> lay.title,
      pieces |-> lay.before \o << sal.piece >> \o lay.after,
      text |-> JoinPieces(lay.before \o << sal.piece >> \o lay.after, sep),
      salary |-> sal.piece, cur |-> sal.cur, a |-> sal.a, b |-> sal.b ] :
      lay \in CardLayouts, sal \in SalaryPieces, sep \in PieceSeparators }

InitCard ==
  /\ cardIn \in CardInputs
  /\ cardOut = NoItem
  /\ CrawlParked /\ MergeParked /\ PagerParked /\ SanParked /\ LinksParked /\ LdParked

RunExtractFromListingCard ==
  /\ cardOut = NoItem
  /\ cardOut' = extractFromListingCard(cardIn.titleText, cardIn.text)
  /\ UNCHANGED << cardIn, crawlVars, mergeVars, pagerVars, sanVars, linksVars, ldVars >>

NextCard == RunExtractFromListingCard

SpecCard == InitCard /\ [][NextCard]_vars

\* C23: for a card whose text consists of k >= 2 non-empty pieces separated
\* by newlines or by runs of two or more spaces, the classifier works on
\* these k pieces as its lines.
C23_CardLinesSplit ==
  (cardOut # NoItem /\ Len(cardIn.pieces) >= 2) => cardOut.lines = cardIn.pieces

C14_CardSalaryRender ==
  cardOut # NoItem =>
    LET c == << cardIn.cur >>
        one == c \o << " " >> \o toLocaleString(AmountValue(cardIn.a))
    IN  IF cardIn.b = << >>
        THEN cardOut.salary_range = one
        ELSE cardOut.salary_range =
               one \o << " ", "-", " " >> \o c \o << " " >> \o toLocaleString(AmountValue(cardIn.b))

(***************************************************************************)
(* SpecJsonLd: the structured-data node a detail page is read from, in the  *)
(* two scripts of main.js that look for one                                 *)
(***************************************************************************)
\* a parsed block: a single object, an array of nodes, or an object whose
\* @graph holds the nodes
FormBlock(form, nodes) == [ok |-> TRUE, nodes |-> nodes, form |-> form]
\* a JobPosting node whose @type is the string or an array that holds it
JobNode(title, typeForm) == [isJob |-> TRUE, title |-> title, typeForm |-> typeForm]
OtherNode == [isJob |-> FALSE, typeForm |-> "string"]

\* main.js:302-305: the markup of the first ld+json element only, parsed, and
\* taken when its own @type is the string 'JobPosting'
detailFirstJsonLd(scripts) ==
  IF scripts = << >> THEN NoJsonLd
  ELSE IF /\ scripts[1].ok
          /\ scripts[1].form = "object"
          /\ scripts[1].nodes[1].isJob
          /\ scripts[1].nodes[1].typeForm = "string"
       THEN scripts[1].nodes[1]
       ELSE NoJsonLd

LdVariants == { "parseJsonLdJob", "firstScriptOnly" }
LdBlocks ==
  { BadBlock,
    FormBlock("object", << OtherNode >>),
    FormBlock("object", << JobNode(VA, "string") >>),
    FormBlock("object", << JobNode(VB, "array") >>),
    FormBlock("array", << OtherNode, JobNode(VA, "string") >>),
    FormBlock("graph", << JobNode(VB, "string"), JobNode(VA, "string") >>),
    FormBlock("array", << >>) }
MaxBlocks == 3
LdScripts == UNION { [1..n -> LdBlocks] : n \in 0..MaxBlocks }

InitJsonLd ==
  /\ ldIn \in [variant : LdVariants, scripts : LdScripts]
  /\ ldOut = NoItem
  /\ CrawlParked /\ MergeParked /\ PagerParked /\ SanParked /\ CardParked /\ LinksParked

RunFindJobPosting ==
  /\ ldOut = NoItem
  /\ ldOut' = IF ldIn.variant = "parseJsonLdJob"
              THEN parseJsonLdJob(ldIn.scripts)
              ELSE detailFirstJsonLd(ldIn.scripts)
  /\ UNCHANGED << ldIn, crawlVars, mergeVars, pagerVars, sanVars, cardVars, linksVars >>

NextJsonLd == RunFindJobPosting

SpecJsonLd == InitJsonLd /\ [][NextJsonLd]_vars

\* the nodes of the blocks that parse, in document order
RECURSIVE NodesInOrder(_)
NodesInOrder(scripts) ==
  IF scripts = << >> THEN << >>
  ELSE (IF Head(scripts).ok THEN Head(scripts).nodes ELSE << >>) \o NodesInOrder(Tail(scripts))
JobsInOrder(scripts) == SelectSeq(NodesInOrder(scripts), LAMBDA n : n.isJob)

\* C18: the node a detail page is read from is the first JobPosting node of
\* all its structured-data blocks in document order, blocks that fail to
\* parse being skipped, and null when no block holds one.
C18_FirstJobPostingInOrder ==
  ldOut # NoItem =>
    ldOut = IF JobsInOrder(ldIn.scripts) = << >> THEN NoJsonLd
            ELSE Head(JobsInOrder(ldIn.scripts))

\* the same, for the scan of parseJsonLdJob alone
C18_ParseJsonLdJobOnly ==
  (ldOut # NoItem /\ ldIn.variant = "parseJsonLdJob") =>
    ldOut = IF JobsInOrder(ldIn.scripts) = << >> THEN NoJsonLd
            ELSE Head(JobsInOrder(ldIn.scripts))

(***************************************************************************)
(* Link collection (collectJobLinks, main.js:622-639).  An anchor of a list *)
(* page is its href (<< >> when it has none) and whether one of the         *)
(* fallback selectors of main.js:632 matches it.                            *)
(***************************************************************************)
ListingPaths == { "/listings/a", "/listings/b" }
LinkAnchor(href, inCard) == [href |-> href, inCard |-> inCard]

\* a[href*="/listings/"]
MatchesListings(a) == \E i \in 1..Len(a.href) : a.href[i] \in ListingPaths

\* abs.includes('#')
HasFragment(url) == \E i \in 1..Len(url) : url[i] = "#"

\* abs.split('?')[0]
RECURSIVE BeforeQuery(_)
BeforeQuery(url) ==
  IF url = << >> \/ Head(url) = "?" THEN << >>
  ELSE << Head(url) >> \o BeforeQuery(Tail(url))

\* Set.prototype.add on a set kept in insertion order
AddLink(links, url) ==
  IF \E i \in 1..Len(links) : links[i] = url THEN links ELSE Append(links, url)

\* the loop over the anchors of the primary pattern (main.js:625-629)
RECURSIVE PrimaryLinks(_, _, _)
PrimaryLinks(anchors, base, links) ==
  IF anchors = << >> THEN links
  ELSE PrimaryLinks(Tail(anchors), base,
         IF /\ MatchesListings(Head(anchors))
            /\ toAbs(Head(anchors).href, base) # NullUrl
            /\ ~HasFragment(toAbs(Head(anchors).href, base))
         THEN AddLink(links, BeforeQuery(toAbs(Head(anchors).href, base)))
         ELSE links)

\* the loop over the anchors of the fallback selectors (main.js:632-636)
RECURSIVE FallbackLinks(_, _, _)
FallbackLinks(anchors, base, links) ==
  IF anchors = << >> THEN links
  ELSE FallbackLinks(Tail(anchors), base,
         IF /\ Head(anchors).inCard
            /\ ~Falsy(Head(anchors).href)
            /\ toAbs(Head(anchors).href, base) # NullUrl
         THEN AddLink(links, BeforeQuery(toAbs(Head(anchors).href, base)))
         ELSE links)

collectJobLinks(anchors, base) ==
  IF PrimaryLinks(anchors, base, << >>) = << >>
  THEN FallbackLinks(anchors, base, << >>)
  ELSE PrimaryLinks(anchors, base, << >>)

(***************************************************************************)
(* SpecLinks: collectJobLinks on the anchors of one list page               *)
(***************************************************************************)
LinksBase == << SiteOrigin, "/jobs" >>
PageAnchors ==
  { LinkAnchor(<< "/listings/a" >>, TRUE),
    LinkAnchor(<< "/listings/a", "?", "ref=1" >>, TRUE),
    LinkAnchor(<< "/listings/a", "?", "ref=2" >>, FALSE),
    LinkAnchor(<< "/listings/a", "#", "apply" >>, TRUE),
    LinkAnchor(<< "/listings/a", "?", "ref=1", "#", "apply" >>, FALSE),
    LinkAnchor(<< SiteOrigin, "/listings/b" >>, TRUE),
    LinkAnchor(<< SiteOrigin, "/listings/b", "#", "top" >>, FALSE),
    LinkAnchor(<< Unparseable, "/listings/a" >>, TRUE),
    LinkAnchor(<< "/about" >>, TRUE),
    LinkAnchor(<< "/about", "#", "team" >>, TRUE),
    LinkAnchor(<< "/about", "?", "x=1" >>, TRUE),
    LinkAnchor(<< "/contact" >>, FALSE),
    LinkAnchor(<< >>, TRUE) }
MaxAnchors == 2
AnchorLists == UNION { [1..n -> PageAnchors] : n \in 0..MaxAnchors }

InitLinks ==
  /\ linksIn \in [anchors : AnchorLists, base : { LinksBase }]
  /\ linksOut = NoItem
  /\ CrawlParked /\ MergeParked /\ PagerParked /\ SanParked /\ CardParked /\ LdParked

RunCollectJobLinks ==
  /\ linksOut = NoItem
  /\ linksOut' = [links |-> collectJobLinks(linksIn.anchors, linksIn.base)]
  /\ UNCHANGED << linksIn, crawlVars, mergeVars, pagerVars, sanVars, cardVars, ldVars >>

NextLinks == RunCollectJobLinks

SpecLinks == InitLinks /\ [][NextLinks]_vars

\* the URL without its query string and its fragment
RECURSIVE Canonical(_)
Canonical(url) ==
  IF url = << >> \/ Head(url) \in { "?", "#" } THEN << >>
  ELSE << Head(url) >> \o Canonical(Tail(url))

\* the anchors of the page that are job links with a URL
JobAnchors ==
  { i \in 1..Len(linksIn.anchors) :
      /\ MatchesListings(linksIn.anchors[i])
      /\ toAbs(linksIn.anchors[i].href, linksIn.base) # NullUrl }

\* C20: every job link of the page is collected as its URL without query
\* string and fragment, a link that carries a fragment included, and no
\* two candidates differ only in their query string or fragment.
C20_CanonicalLinks ==
  linksOut # NoItem =>
    /\ \A i \in JobAnchors :
         \E k \in 1..Len(linksOut.links) :
           linksOut.links[k] = Canonical(toAbs(linksIn.anchors[i].href, linksIn.base))
    /\ \A k, h \in 1..Len(linksOut.links) :
         Canonical(linksOut.links[k]) = Canonical(linksOut.links[h]) => k = h

====
